---- MODULE Spec2Model ----
(***************************************************************************)
(* A model of nautobot_route_tracking: the RouteEntry store with its       *)
(* UPDATE-or-INSERT reconciliation (models.py), the route collection job   *)
(* (jobs/collect_routes.py) and the retention purge                        *)
(* (jobs/purge_old_routes.py).                                             *)
(*                                                                         *)
(* Three specifications share the variables:                               *)
(*   Spec      calls of update_or_create_entry and purges, one after the   *)
(*             other;                                                      *)
(*   SpecConc  two writers whose update_or_create_entry calls interleave   *)
(*             at the row lock, with direct inserts and purges;            *)
(*   SpecRun   one run of CollectRoutesJob over a small inventory.         *)
(***************************************************************************)
EXTENDS Integers, Sequences, FiniteSets, TLC

VARIABLES
    rows,      \* the RouteEntry table: a set of row records
    now,       \* the wall clock (timezone.now()), in days
    nextPk,    \* the next fresh primary key
    pc,        \* SpecConc: each writer's position in update_or_create_entry
    cand,      \* SpecConc: each writer's candidate
    found,     \* SpecConc: the pk each writer's lookup returned (NoRow: none)
    ret,       \* SpecConc: what each writer's call returned or raised
    job        \* SpecRun: the state of the CollectRoutesJob run

vars == <<rows, now, nextPk, pc, cand, found, ret, job>>

(***************************************************************************)
(* Bounds of the model.                                                    *)
(***************************************************************************)
\* The clock runs from 0 to MaxTime.
MaxTime == 2
\* At most MaxPk rows are ever inserted in one behaviour.
MaxPk == 3

(***************************************************************************)
(* Values.                                                                 *)
(***************************************************************************)
NoVrf == "null"
NoIface == "null"
NoRow == 0

\* A network string is modelled by what ipaddress.ip_network reads from it:
\* the address family, the address as its groups (4 octets, 8 hextets) and the
\* prefix length. fam = 0 stands for a string ip_network cannot parse.
Net4(a, b, c, d, l) == [fam |-> 4, addr |-> <<a, b, c, d>>, len |-> l]
Net6(h1, h2, h8, l) == [fam |-> 6, addr |-> <<h1, h2, 0, 0, 0, 0, 0, h8>>, len |-> l]
NotAPrefix == [fam |-> 0, addr |-> <<>>, len |-> 0]

Pow2(n) == 2 ^ n

GroupBits(fam) == IF fam = 4 THEN 8 ELSE 16
GroupCount(fam) == IF fam = 4 THEN 4 ELSE 8

\* ipaddress.ip_network(s, strict=False) succeeds.
IsParsable(n) ==
    /\ n.fam \in {4, 6}
    /\ Len(n.addr) = GroupCount(n.fam)
    /\ \A i \in 1..Len(n.addr) : n.addr[i] \in 0..(Pow2(GroupBits(n.fam)) - 1)
    /\ n.len \in 0..(GroupBits(n.fam) * GroupCount(n.fam))

\* The number of leading bits of group i that a prefix of length l keeps.
KeptBits(i, l, w) ==
    LET k == l - w * (i - 1)
    IN  IF k < 0 THEN 0 ELSE IF k > w THEN w ELSE k

\* Mutant: the network is parsed without zeroing its host bits.
ip_network_keeps_host_bits(n) == n

\* str(ipaddress.ip_network(s, strict=False)): the host bits are zeroed.
ip_network(n) ==
    [n EXCEPT !.addr = [i \in 1..Len(n.addr) |->
        LET w == GroupBits(n.fam)
            k == KeptBits(i, n.len, w)
        IN  n.addr[i] - (n.addr[i] % Pow2(w - k))]]

\* net.prefixlen
prefixlen(n) == n.len

\* a.subnet_of(b), for networks of one family in canonical form.
subnet_of(a, b) ==
    /\ a.fam = b.fam
    /\ a.len >= b.len
    /\ [ip_network([a EXCEPT !.len = b.len]) EXCEPT !.len = b.len] = b

EXCLUDED_ROUTE_NETWORKS ==
    { Net4(224, 0, 0, 0, 4),
      Net4(169, 254, 0, 0, 16),
      Net4(127, 0, 0, 0, 8),
      Net6(65280, 0, 0, 8),
      Net6(65152, 0, 0, 10),
      Net6(0, 0, 1, 128) }

\* Mutant: only a prefix equal to a reserved range is excluded, not its subnets.
is_excluded_route_equal_only(network) ==
    IF ~IsParsable(network) THEN FALSE
    ELSE ip_network(network) \in EXCLUDED_ROUTE_NETWORKS

is_excluded_route(network) ==
    IF ~IsParsable(network) THEN FALSE
    ELSE LET net == ip_network(network)
         IN  \E excluded \in EXCLUDED_ROUTE_NETWORKS :
                /\ net.fam = excluded.fam
                /\ (subnet_of(net, excluded) \/ net = excluded)

\* RouteEntry.Protocol.choices
Protocol == {"ospf", "bgp", "static", "connected", "isis", "rip", "eigrp", "local", "unknown"}

\* str.lower() on the protocol labels the model uses.
lower(s) ==
    CASE s = "BGP" -> "bgp"
      [] s = "OSPF" -> "ospf"
      [] s = "eBGP" -> "ebgp"
      [] s = "iBGP" -> "ibgp"
      [] s = "ospfInter" -> "ospfinter"
      [] s = "ospfIntra" -> "ospfintra"
      [] s = "ospfExt1" -> "ospfext1"
      [] s = "ospfExt2" -> "ospfext2"
      [] s = "ospfNssa1" -> "ospfnssa1"
      [] s = "ospfNssa2" -> "ospfnssa2"
      [] s = "unknownProto" -> "unknownproto"
      [] s = "Unknown" -> "unknown"
      [] s = "C" -> "c"
      [] OTHER -> s

(***************************************************************************)
(* The inventory: devices with their interfaces, and the VRFs.             *)
(***************************************************************************)
Devices == {"d1", "d2"}
\* Interface.device_id
IfaceDevice == [e1 |-> "d1", e2 |-> "d2"]
Ifaces == DOMAIN IfaceDevice


(***************************************************************************)
(* The RouteEntry table.                                                   *)
(***************************************************************************)
\* The fields of the identity key, as the store compares them.
SameRoute(r, s) ==
    /\ r.device = s.device
    /\ r.network = s.network
    /\ r.next_hop = s.next_hop
    /\ r.protocol = s.protocol

\* UniqueConstraint(fields=[device, vrf, network, next_hop, protocol]):
\* SQL compares NULL as distinct, so a row with vrf NULL never conflicts here.
unique_route(R, r) ==
    \A s \in R : (s.pk # r.pk /\ SameRoute(r, s)) => (s.vrf # r.vrf \/ r.vrf = NoVrf)

\* UniqueConstraint(fields=[device, network, next_hop, protocol],
\*                  condition=Q(vrf__isnull=True))
unique_route_no_vrf(R, r) ==
    r.vrf = NoVrf => \A s \in R : (s.pk # r.pk /\ SameRoute(r, s)) => s.vrf # NoVrf

\* Mutant: the partial constraint for vrf IS NULL is missing.
constraints_without_no_vrf(R, r) == unique_route(R, r)

\* Meta.constraints: the table accepts row r beside the rows R.
constraints(R, r) == unique_route(R, r) /\ unique_route_no_vrf(R, r)

\* clean_fields(): the protocol is lower-cased, then every field is validated
\* (choices of protocol, the ranges of the positive integer fields).
clean_fields(r) ==
    LET p == IF r.protocol # "" THEN lower(r.protocol) ELSE r.protocol
    IN  IF /\ p \in Protocol
           /\ r.metric >= 0
           /\ r.admin_distance \in 0..32767
           /\ r.prefix_length \in 0..32767
        THEN [ok |-> TRUE, row |-> [r EXCEPT !.protocol = p]]
        ELSE [ok |-> FALSE, row |-> r]

\* clean(): the network is normalized and prefix_length derived from it; an
\* outgoing interface must belong to the row's device.
clean(r) ==
    IF ~IsParsable(r.network) THEN [ok |-> FALSE, row |-> r]
    ELSE LET net == ip_network(r.network)
             n == [r EXCEPT !.network = net, !.prefix_length = prefixlen(net)]
         IN  IF r.outgoing_interface # NoIface /\ IfaceDevice[r.outgoing_interface] # r.device
             THEN [ok |-> FALSE, row |-> n]
             ELSE [ok |-> TRUE, row |-> n]

\* full_clean(): clean_fields, clean, then the uniqueness validation against
\* the table. The result is the cleaned row, or "ValidationError".
full_clean(R, r) ==
    LET f == clean_fields(r)
        c == clean(f.row)
    IN  IF f.ok /\ c.ok /\ constraints(R, c.row)
        THEN [ok |-> TRUE, row |-> c.row]
        ELSE [ok |-> FALSE, row |-> r]

\* Mutant: the lookup leaves the vrf out of its filter.
Matching_without_vrf(R, device, vrf, network, next_hop, protocol) ==
    { r \in R : /\ r.device = device
                /\ r.network = network
                /\ r.next_hop = next_hop
                /\ r.protocol = protocol }

\* Mutant: the lookup leaves the next hop out of its filter.
Matching_without_next_hop(R, device, vrf, network, next_hop, protocol) ==
    { r \in R : /\ r.device = device
                /\ r.vrf = vrf
                /\ r.network = network
                /\ r.protocol = protocol }

\* The filter of update_or_create_entry's lookup. filter(vrf=None) is IS NULL.
Matching(R, device, vrf, network, next_hop, protocol) ==
    { r \in R : /\ r.device = device
                /\ r.vrf = vrf
                /\ r.network = network
                /\ r.next_hop = next_hop
                /\ r.protocol = protocol }

\* .first() under Meta.ordering = ["-last_seen"]; NoRow when nothing matches.
first(S) ==
    IF S = {} THEN NoRow
    ELSE (CHOOSE r \in S : \A s \in S : s.last_seen <= r.last_seen).pk

RowOf(R, pk) == CHOOSE r \in R : r.pk = pk

\* normalized_protocol = protocol.lower() if protocol else "unknown"
normalized_protocol(c) == IF c.protocol # "" THEN lower(c.protocol) ELSE "unknown"

\* The lookup of update_or_create_entry for candidate c (a parsable network).
Lookup(R, c) ==
    first(Matching(R, c.device, c.vrf, ip_network(c.network), c.next_hop,
                   normalized_protocol(c)))

\* Mutant: the UPDATE branch also stamps first_seen.
Refreshed_first_seen(existing, c, t) ==
    [existing EXCEPT !.last_seen = t,
                     !.first_seen = t,
                     !.metric = c.metric,
                     !.admin_distance = c.admin_distance,
                     !.is_active = c.is_active,
                     !.prefix_length = prefixlen(ip_network(c.network)),
                     !.routing_table = c.routing_table,
                     !.outgoing_interface = c.outgoing_interface]

\* Mutant: the UPDATE branch does not touch last_seen.
Refreshed_keeps_last_seen(existing, c, t) ==
    [existing EXCEPT !.metric = c.metric,
                     !.admin_distance = c.admin_distance,
                     !.is_active = c.is_active,
                     !.prefix_length = prefixlen(ip_network(c.network)),
                     !.routing_table = c.routing_table,
                     !.outgoing_interface = c.outgoing_interface]

\* Mutant: the UPDATE branch forgets routing_table.
Refreshed_keeps_routing_table(existing, c, t) ==
    [existing EXCEPT !.last_seen = t,
                     !.metric = c.metric,
                     !.admin_distance = c.admin_distance,
                     !.is_active = c.is_active,
                     !.prefix_length = prefixlen(ip_network(c.network)),
                     !.outgoing_interface = c.outgoing_interface]

\* Mutant: the UPDATE branch forgets the metric.
Refreshed_keeps_metric(existing, c, t) ==
    [existing EXCEPT !.last_seen = t,
                     !.admin_distance = c.admin_distance,
                     !.is_active = c.is_active,
                     !.prefix_length = prefixlen(ip_network(c.network)),
                     !.routing_table = c.routing_table,
                     !.outgoing_interface = c.outgoing_interface]

\* The UPDATE branch: the mutable fields of the existing row are refreshed.
Refreshed(existing, c, t) ==
    [existing EXCEPT !.last_seen = t,
                     !.metric = c.metric,
                     !.admin_distance = c.admin_distance,
                     !.is_active = c.is_active,
                     !.prefix_length = prefixlen(ip_network(c.network)),
                     !.routing_table = c.routing_table,
                     !.outgoing_interface = c.outgoing_interface]

\* The INSERT branch: the new entry as constructed, last_seen = timezone.now().
\* first_seen is auto_now_add: it is set when the row is saved, at time tSave.
NewEntry(c, pk, t, tSave) ==
    [pk |-> pk,
     device |-> c.device,
     vrf |-> c.vrf,
     network |-> ip_network(c.network),
     prefix_length |-> prefixlen(ip_network(c.network)),
     protocol |-> normalized_protocol(c),
     next_hop |-> c.next_hop,
     outgoing_interface |-> c.outgoing_interface,
     metric |-> c.metric,
     admin_distance |-> c.admin_distance,
     is_active |-> c.is_active,
     routing_table |-> c.routing_table,
     first_seen |-> tSave,
     last_seen |-> t]

\* Mutant: the UPDATE branch stores the refreshed row although its validation
\* failed.
SaveEntry_unvalidated_update(R, c, existing, pk, t, tSave) ==
    IF existing # NoRow
    THEN LET v == full_clean(R, Refreshed(RowOf(R, existing), c, t))
         IN  IF v.ok
             THEN [rows |-> (R \ {RowOf(R, existing)}) \cup {v.row},
                   result |-> "updated", pk |-> existing]
             ELSE [rows |-> (R \ {RowOf(R, existing)}) \cup {Refreshed(RowOf(R, existing), c, t)},
                   result |-> "ValidationError", pk |-> NoRow]
    ELSE LET v == full_clean(R, NewEntry(c, pk, t, tSave))
         IN  IF v.ok
             THEN [rows |-> R \cup {v.row}, result |-> "created", pk |-> pk]
             ELSE [rows |-> R, result |-> "ValidationError", pk |-> NoRow]

\* update_or_create_entry(c) on table R, with the lookup's answer given (pk of
\* the existing row or NoRow): the table afterwards and what the call returns
\* or raises. t is the clock at the call, tSave the clock when the row is saved.
SaveEntry(R, c, existing, pk, t, tSave) ==
    IF existing # NoRow
    THEN LET v == full_clean(R, Refreshed(RowOf(R, existing), c, t))
         IN  IF v.ok
             THEN [rows |-> (R \ {RowOf(R, existing)}) \cup {v.row},
                   result |-> "updated", pk |-> existing]
             ELSE [rows |-> R, result |-> "ValidationError", pk |-> NoRow]
    ELSE LET v == full_clean(R, NewEntry(c, pk, t, tSave))
         IN  IF v.ok
             THEN [rows |-> R \cup {v.row}, result |-> "created", pk |-> pk]
             ELSE [rows |-> R, result |-> "ValidationError", pk |-> NoRow]

update_or_create_entry(R, c, pk, t, tSave) ==
    IF ~IsParsable(c.network)
    THEN [rows |-> R, result |-> "ValueError", pk |-> NoRow]
    ELSE SaveEntry(R, c, Lookup(R, c), pk, t, tSave)

\* RouteEntry.objects.create(...): no validation, the database's constraints
\* alone decide.
create(R, r) ==
    IF constraints(R, r)
    THEN [rows |-> R \cup {r}, result |-> "created", pk |-> r.pk]
    ELSE [rows |-> R, result |-> "IntegrityError", pk |-> NoRow]

\* RouteEntry.objects.stale(days): the rows last seen before the cutoff.
stale(R, t, days) == { r \in R : r.last_seen < t - days }


(***************************************************************************)
(* The candidates the writers present.                                     *)
(***************************************************************************)
Base ==
    [device |-> "d1",
     network |-> Net4(10, 0, 0, 0, 24),
     protocol |-> "bgp",
     vrf |-> NoVrf,
     next_hop |-> "10.0.0.1",
     outgoing_interface |-> NoIface,
     metric |-> 0,
     admin_distance |-> 20,
     is_active |-> TRUE,
     routing_table |-> "default"]

\* The same identity key as Base with every mutable field changed.
Changed ==
    [Base EXCEPT !.metric = 5, !.admin_distance = 200, !.is_active = FALSE,
                 !.routing_table = "inet.0", !.outgoing_interface = "e1"]

\* The same identity key as Base, spelled with host bits and in upper case.
Respelled == [Base EXCEPT !.network = Net4(10, 0, 0, 1, 24), !.protocol = "BGP"]

Candidates ==
    { Base, Changed, Respelled,
      [Base EXCEPT !.next_hop = "10.0.0.2"],
      [Base EXCEPT !.vrf = "v1"],
      [Base EXCEPT !.network = NotAPrefix],
      [Base EXCEPT !.protocol = "foo"],
      [Base EXCEPT !.outgoing_interface = "e2"] }

\* Candidates whose fields are already in stored form: what a caller hands to
\* RouteEntry.objects.create().
StoredForm ==
    { c \in {Base, [Base EXCEPT !.vrf = "v1"]} :
                         /\ IsParsable(c.network)
                         /\ c.network = ip_network(c.network)
                         /\ c.protocol \in Protocol
                         /\ (c.outgoing_interface # NoIface
                                => IfaceDevice[c.outgoing_interface] = c.device) }

RetentionDays == {1, 2}

Writers == {"w1", "w2"}

NoJob == [phase |-> "none"]

(***************************************************************************)
(* Spec: the store operations, one after the other.                        *)
(***************************************************************************)
Init ==
    /\ rows = {}
    /\ now = 0
    /\ nextPk = 1
    /\ pc = [w \in Writers |-> "idle"]
    /\ cand = [w \in Writers |-> Base]
    /\ found = [w \in Writers |-> NoRow]
    /\ ret = [w \in Writers |-> [result |-> "none", pk |-> NoRow]]
    /\ job = NoJob

\* One call of RouteEntry.update_or_create_entry(c).
Upsert(c) ==
    \E tSave \in {now, now + 1} :
      /\ tSave <= MaxTime
      /\ \E o \in {update_or_create_entry(rows, c, nextPk, now, tSave)} :
            /\ o.result = "created" => nextPk <= MaxPk
            /\ o.result # "created" => tSave = now
            /\ rows' = o.rows
            /\ nextPk' = IF o.result = "created" THEN nextPk + 1 ELSE nextPk
            /\ now' = tSave
            /\ UNCHANGED <<pc, cand, found, ret, job>>

\* RouteEntry.objects.create(...) with a caller-supplied last_seen.
DirectInsert(c, ls) ==
    \E o \in {create(rows, NewEntry(c, nextPk, ls, now))} :
        /\ o.result = "created" => nextPk <= MaxPk
        /\ rows' = o.rows
        /\ nextPk' = IF o.result = "created" THEN nextPk + 1 ELSE nextPk
        /\ UNCHANGED <<now, pc, cand, found, ret, job>>

\* The rows a writer holds locked (select_for_update) until its call ends.
Locked == { found[w] : w \in { v \in Writers : pc[v] = "locked" } } \ {NoRow}

\* PurgeOldRoutesJob.run(retention_days=days, commit=commit). The delete waits
\* for the row locks of writers.
Purge(days, commit) ==
    LET gone == stale(rows, now, days)
    IN  /\ commit => \A r \in gone : r.pk \notin Locked
        /\ rows' = IF commit THEN rows \ gone ELSE rows
        /\ UNCHANGED <<now, nextPk, pc, cand, found, ret, job>>

\* Time passes.
Tick ==
    /\ now < MaxTime
    /\ now' = now + 1
    /\ UNCHANGED <<rows, nextPk, pc, cand, found, ret, job>>

Next ==
    \/ \E c \in Candidates : Upsert(c)
    \/ \E days \in RetentionDays, commit \in BOOLEAN : Purge(days, commit)
    \/ Tick

Spec == Init /\ [][Next]_vars


(***************************************************************************)
(* SpecConc: two writers inside update_or_create_entry at the same time.   *)
(* A call is two steps: the lookup under select_for_update, which locks    *)
(* the row it finds, and the save, after which the transaction commits and *)
(* the lock is released.                                                   *)
(***************************************************************************)
ConcCandidates ==
    { Base, Respelled, [Base EXCEPT !.vrf = "v1"], [Base EXCEPT !.network = NotAPrefix] }

\* Lines 290-312: normalization, then the locking lookup. A lookup that finds
\* a row another writer holds locked waits for that writer.
Begin(w, c) ==
    /\ pc[w] = "idle"
    /\ cand' = [cand EXCEPT ![w] = c]
    /\ IF ~IsParsable(c.network)
       THEN /\ ret' = [ret EXCEPT ![w] = [result |-> "ValueError", pk |-> NoRow]]
            /\ UNCHANGED <<pc, found>>
       ELSE /\ Lookup(rows, c) \notin Locked
            /\ found' = [found EXCEPT ![w] = Lookup(rows, c)]
            /\ pc' = [pc EXCEPT ![w] = "locked"]
            /\ ret' = [ret EXCEPT ![w] = [result |-> "none", pk |-> NoRow]]
    /\ UNCHANGED <<rows, now, nextPk, job>>

\* The entry is valid but for a row of its key that another writer committed
\* after this writer's lookup.
LostRace(R, c, existing, pk, t, tSave) ==
    /\ existing = NoRow
    /\ full_clean({}, NewEntry(c, pk, t, tSave)).ok
    /\ ~constraints(R, full_clean({}, NewEntry(c, pk, t, tSave)).row)

\* Lines 314-342: the save. A duplicate that appeared since the lookup is
\* refused by the model validation (ValidationError) or, when the other
\* transaction commits in between, by the database (IntegrityError).
Finish(w) ==
    /\ pc[w] = "locked"
    /\ \E tSave \in {now, now + 1} :
        LET o == SaveEntry(rows, cand[w], found[w], nextPk, now, tSave)
            lost == LostRace(rows, cand[w], found[w], nextPk, now, tSave)
        IN  /\ tSave <= MaxTime
            /\ o.result = "created" => nextPk <= MaxPk
            /\ o.result # "created" => tSave = now
            /\ rows' = o.rows
            /\ nextPk' = IF o.result = "created" THEN nextPk + 1 ELSE nextPk
            /\ now' = tSave
            /\ \E res \in (IF lost THEN {"ValidationError", "IntegrityError"} ELSE {o.result}) :
                  ret' = [ret EXCEPT ![w] = [result |-> res, pk |-> o.pk]]
    /\ pc' = [pc EXCEPT ![w] = "idle"]
    /\ UNCHANGED <<cand, found, job>>

NextConc ==
    \/ \E w \in Writers, c \in ConcCandidates : Begin(w, c)
    \/ \E w \in Writers : Finish(w)
    \/ \E c \in StoredForm : DirectInsert(c, now)
    \/ \E days \in RetentionDays : Purge(days, TRUE)
    \/ Tick

SpecConc == Init /\ [][NextConc]_vars


(***************************************************************************)
(* SpecRun: runs of CollectRoutesJob.run, one after the other, over the    *)
(* inventory. What the devices answer is the input of a run.               *)
(***************************************************************************)
\* At most MaxRuns runs in one behaviour.
MaxRuns == 2

\* VRF.objects: the names of the VRFs Nautobot knows.
VrfNames == {"v1"}

\* A value handed to int(): a number, or text int() cannot read.
Num(n) == [isnum |-> TRUE, val |-> n]
NotANumber == [isnum |-> FALSE, val |-> 0]

\* A nexthop dict as the parsers build it, and an entry that is no dict.
NextHop(hop) ==
    [dict |-> TRUE, protocol |-> "bgp", next_hop |-> hop, outgoing_interface |-> "",
     preference |-> Num(20), metric |-> Num(0), current_active |-> TRUE,
     routing_table |-> "default"]
NotADict ==
    [dict |-> FALSE, protocol |-> "", next_hop |-> "", outgoing_interface |-> "",
     preference |-> Num(0), metric |-> Num(0), current_active |-> TRUE,
     routing_table |-> ""]

\* host_result[0].result of a device: the routes dict, prefix -> nexthops, in
\* the dict's iteration order.
Routes(rs) == [kind |-> "routes", routes |-> rs]
EmptyTable == Routes(<<>>)
EcmpTable ==
    Routes(<< [prefix |-> Net4(10, 0, 0, 0, 24),
               nexthops |-> <<NextHop("10.0.0.1"), NextHop("10.0.0.2")>>] >>)
MixedTable ==
    Routes(<< [prefix |-> Net4(169, 254, 0, 0, 16),
               nexthops |-> <<NextHop("")>>],
              [prefix |-> Net4(10, 0, 0, 1, 24),
               nexthops |-> <<NotADict,
                              [NextHop("10.0.0.1") EXCEPT !.routing_table = "v1",
                                                          !.protocol = "BGP",
                                                          !.outgoing_interface = "e1"]>>],
              [prefix |-> NotAPrefix,
               nexthops |-> <<NextHop("10.0.0.1")>>],
              [prefix |-> Net4(10, 0, 0, 0, 24),
               nexthops |-> <<[NextHop("10.0.0.1") EXCEPT !.protocol = "foo"]>>] >>)
InvalidFirstTable ==
    Routes(<< [prefix |-> NotAPrefix,
               nexthops |-> <<NextHop("10.0.0.1")>>],
              [prefix |-> Net4(10, 0, 0, 0, 24),
               nexthops |-> <<[NextHop("10.0.0.1") EXCEPT !.protocol = "foo"],
                              NextHop("10.0.0.2")>>] >>)
BrokenTable ==
    Routes(<< [prefix |-> Net4(10, 0, 0, 0, 24),
               nexthops |-> <<NextHop("10.0.0.1"),
                              [NextHop("10.0.0.2") EXCEPT !.preference = NotANumber]>>] >>)

\* What nr.run() holds for a host: no entry, a failed result (transport error,
\* unsupported platform), a result that is no dict, or a routes dict.
Missing == [kind |-> "missing", routes |-> <<>>]
Failed == [kind |-> "failed", routes |-> <<>>]
NotDictResult == [kind |-> "notdict", routes |-> <<>>]
Outcomes == {Missing, Failed, NotDictResult, EmptyTable, EcmpTable, MixedTable, BrokenTable}

\* stats as run() initializes it.
NoStats ==
    [devices_total |-> 0, devices_success |-> 0, devices_failed |-> 0,
     devices_skipped |-> 0, routes_updated |-> 0, routes_created |-> 0,
     routes_excluded |-> 0, routes_dryrun |-> 0, routes_invalid |-> 0]

\* interfaces_by_name.get(iface_name): the interfaces of this device only.
InterfaceByName(device, name) ==
    IF name \in Ifaces /\ IfaceDevice[name] = device THEN name ELSE NoIface

\* Mutant: a routing table name that is not a global table is taken as the
\* name of a VRF, whether Nautobot has that VRF or not.
ResolveVrf_any_name(routing_table) ==
    IF routing_table \in {"default", "inet.0", ""} THEN NoVrf ELSE routing_table

\* The VRF of a routing table name: none for the global tables, else the VRF of
\* that name if Nautobot has one.
ResolveVrf(routing_table) ==
    IF routing_table \in {"default", "inet.0", ""} THEN NoVrf
    ELSE IF routing_table \in VrfNames THEN routing_table ELSE NoVrf

\* The arguments run() builds from a nexthop dict for update_or_create_entry.
Arguments(device, prefix, nh) ==
    [device |-> device,
     network |-> prefix,
     protocol |-> IF lower(nh.protocol) # "" THEN lower(nh.protocol) ELSE "unknown",
     vrf |-> ResolveVrf(IF nh.routing_table # "" THEN nh.routing_table ELSE "default"),
     next_hop |-> nh.next_hop,
     outgoing_interface |-> IF nh.outgoing_interface # ""
                            THEN InterfaceByName(device, nh.outgoing_interface)
                            ELSE NoIface,
     metric |-> nh.metric.val,
     admin_distance |-> nh.preference.val,
     is_active |-> nh.current_active,
     routing_table |-> IF nh.routing_table # "" THEN nh.routing_table ELSE "default"]

\* Mutant: the dry-run branch is missing.
CountOnly_never(commit) == FALSE

\* if not commit: the route is counted and nothing is written.
CountOnly(commit) == ~commit

\* Mutant: a rejected route ends the device's pass as an unexpected error.
process_nexthop_invalid_fatal(acc, device, prefix, nh, commit, t) ==
    IF ~nh.dict THEN [acc EXCEPT !.invalid = @ + 1]
    ELSE IF ~nh.preference.isnum \/ ~nh.metric.isnum THEN [acc EXCEPT !.error = TRUE]
    ELSE IF CountOnly(commit) THEN [acc EXCEPT !.dryrun = @ + 1]
    ELSE LET o == update_or_create_entry(acc.rows, Arguments(device, prefix, nh), acc.pk, t, t)
         IN  CASE o.result = "created" ->
                    [acc EXCEPT !.rows = o.rows, !.pk = @ + 1, !.created = @ + 1]
               [] o.result = "updated" ->
                    [acc EXCEPT !.rows = o.rows, !.updated = @ + 1]
               [] OTHER -> [acc EXCEPT !.error = TRUE]

\* One nexthop of the loop over a prefix's nexthops. acc carries the table, the
\* next fresh pk, the device's counters and whether an exception is in flight.
process_nexthop(acc, device, prefix, nh, commit, t) ==
    IF ~nh.dict THEN [acc EXCEPT !.invalid = @ + 1]
    ELSE IF ~nh.preference.isnum \/ ~nh.metric.isnum THEN [acc EXCEPT !.error = TRUE]
    ELSE IF CountOnly(commit) THEN [acc EXCEPT !.dryrun = @ + 1]
    ELSE LET o == update_or_create_entry(acc.rows, Arguments(device, prefix, nh), acc.pk, t, t)
         IN  CASE o.result = "created" ->
                    [acc EXCEPT !.rows = o.rows, !.pk = @ + 1, !.created = @ + 1]
               [] o.result = "updated" ->
                    [acc EXCEPT !.rows = o.rows, !.updated = @ + 1]
               [] OTHER -> [acc EXCEPT !.invalid = @ + 1]

RECURSIVE process_nexthops(_, _, _, _, _, _)
process_nexthops(acc, device, prefix, nhs, commit, t) ==
    IF nhs = <<>> \/ acc.error THEN acc
    ELSE process_nexthops(process_nexthop(acc, device, prefix, Head(nhs), commit, t),
                          device, prefix, Tail(nhs), commit, t)

\* The loop over routes.items().
RECURSIVE process_routes(_, _, _, _, _)
process_routes(acc, device, routes, commit, t) ==
    IF routes = <<>> \/ acc.error THEN acc
    ELSE LET r == Head(routes)
             next == IF is_excluded_route(r.prefix)
                     THEN [acc EXCEPT !.excluded = @ + 1]
                     ELSE process_nexthops(acc, device, r.prefix, r.nexthops, commit, t)
         IN  process_routes(next, device, Tail(routes), commit, t)

\* Mutant: an unexpected exception leaves what the device's pass wrote and
\* counted before it.
process_device_keeps_partial(R, device, outcome, commit, pk, t) ==
    LET zero == [rows |-> R, pk |-> pk, error |-> FALSE, created |-> 0, updated |-> 0,
                 excluded |-> 0, dryrun |-> 0, invalid |-> 0]
    IN  IF outcome.kind # "routes" THEN [zero EXCEPT !.error = TRUE]
        ELSE process_routes(zero, device, outcome.routes, commit, t)

\* Mutant: a device's rows that a committing pass did not see again are removed.
process_device_withdraws(R, device, outcome, commit, pk, t) ==
    LET zero == [rows |-> R, pk |-> pk, error |-> FALSE, created |-> 0, updated |-> 0,
                 excluded |-> 0, dryrun |-> 0, invalid |-> 0]
    IN  IF outcome.kind # "routes" THEN [zero EXCEPT !.error = TRUE]
        ELSE LET acc == process_routes(zero, device, outcome.routes, commit, t)
             IN  IF acc.error THEN [zero EXCEPT !.error = TRUE]
                 ELSE IF commit
                 THEN [acc EXCEPT !.rows = { r \in @ : r.device # device \/ r.last_seen = t }]
                 ELSE acc

\* The body of the loop over device_map for one device: the table afterwards,
\* the next fresh pk, whether the device counts as failed, and its counters.
\* An exception rolls the device's transaction back; the keys of the rows that
\* were never committed are fresh again.
process_device(R, device, outcome, commit, pk, t) ==
    LET zero == [rows |-> R, pk |-> pk, error |-> FALSE, created |-> 0, updated |-> 0,
                 excluded |-> 0, dryrun |-> 0, invalid |-> 0]
    IN  IF outcome.kind # "routes" THEN [zero EXCEPT !.error = TRUE]
        ELSE LET acc == process_routes(zero, device, outcome.routes, commit, t)
             IN  IF acc.error THEN [zero EXCEPT !.error = TRUE]
                 ELSE acc

\* The statistics after one more device.
AddDevice(stats, o) ==
    IF o.error THEN [stats EXCEPT !.devices_failed = @ + 1]
    ELSE [stats EXCEPT !.routes_created = @ + o.created,
                       !.routes_updated = @ + o.updated,
                       !.routes_excluded = @ + o.excluded,
                       !.routes_dryrun = @ + o.dryrun,
                       !.routes_invalid = @ + o.invalid,
                       !.devices_success = @ + 1]

\* Mutant: an exception while processing a device ends the loop.
Remaining_abort(todo, o) == IF o.error THEN <<>> ELSE Tail(todo)

\* for device_name, device_obj in device_map.items(): the loop goes on to the
\* next device, whatever the outcome of this one.
Remaining(todo, o) == Tail(todo)

\* Mutant: any failed device makes the run raise.
total_failure_any_failed(stats) == stats.devices_failed > 0

\* if stats["devices_success"] == 0 and stats["devices_failed"] > 0: raise
total_failure(stats) == stats.devices_success = 0 /\ stats.devices_failed > 0

\* The whole loop over device_map, from table R: the table and the statistics
\* at its end.
RECURSIVE process_devices(_, _, _, _, _, _, _)
process_devices(R, todo, results, commit, pk, t, stats) ==
    IF todo = <<>> THEN [rows |-> R, stats |-> stats]
    ELSE LET o == process_device(R, Head(todo), results[Head(todo)], commit, pk, t)
         IN  process_devices(o.rows, Remaining(todo, o), results, commit, o.pk, t,
                             AddDevice(stats, o))

\* The devices of a queryset in its order.
InOrder(S) ==
    IF S = {"d1", "d2"} THEN <<"d1", "d2">>
    ELSE IF S = {"d1"} THEN <<"d1">>
    ELSE IF S = {"d2"} THEN <<"d2">>
    ELSE <<>>

JobFields(phase, commit, hosts, results, todo, stats, outcome, runs) ==
    [phase |-> phase, commit |-> commit, hosts |-> hosts, results |-> results,
     todo |-> todo, stats |-> stats, outcome |-> outcome, runs |-> runs,
     rows0 |-> rows]

InitRun ==
    /\ rows = {}
    /\ now = 0
    /\ nextPk = 1
    /\ pc = [w \in Writers |-> "idle"]
    /\ cand = [w \in Writers |-> Base]
    /\ found = [w \in Writers |-> NoRow]
    /\ ret = [w \in Writers |-> [result |-> "none", pk |-> NoRow]]
    /\ job = [phase |-> "done", commit |-> TRUE, hosts |-> {}, results |-> <<>>,
              todo |-> <<>>, stats |-> NoStats, outcome |-> "none", runs |-> 0,
              rows0 |-> {}]

\* run() up to the loop over the devices: target selection (targets), Nornir
\* initialization (init_ok), the hosts of the Nornir inventory, and nr.run(),
\* whose results are the answers of the devices.
StartRun(commit, targets, init_ok, hosts, results) ==
    /\ job.phase = "done"
    /\ job.runs < MaxRuns
    /\ LET total == [NoStats EXCEPT !.devices_total = Cardinality(targets)]
           skipped == [total EXCEPT !.devices_skipped = Cardinality(targets \ hosts)]
       IN  job' =
             IF targets = {}
             THEN JobFields("done", commit, {}, results, <<>>, total, "returned", job.runs + 1)
             ELSE IF ~init_ok
             THEN JobFields("done", commit, {}, results, <<>>, total, "returned", job.runs + 1)
             ELSE IF hosts = {}
             THEN JobFields("done", commit, {}, results, <<>>, skipped, "returned", job.runs + 1)
             ELSE JobFields("devices", commit, hosts, results, InOrder(hosts), skipped,
                            "none", job.runs + 1)
    /\ UNCHANGED <<rows, now, nextPk, pc, cand, found, ret>>

\* One pass of the loop over device_map.
ProcessDevice ==
    /\ job.phase = "devices"
    /\ job.todo # <<>>
    /\ \E o \in {process_device(rows, Head(job.todo), job.results[Head(job.todo)],
                                job.commit, nextPk, now)} :
          /\ o.pk <= MaxPk + 1
          /\ rows' = o.rows
          /\ nextPk' = o.pk
          /\ job' = [job EXCEPT !.todo = Remaining(job.todo, o),
                                !.stats = AddDevice(job.stats, o)]
    /\ UNCHANGED <<now, pc, cand, found, ret>>

\* The summary: the run raises on total failure and returns the statistics
\* otherwise.
EndRun ==
    /\ job.phase = "devices"
    /\ job.todo = <<>>
    /\ job' = [job EXCEPT !.phase = "done",
                          !.outcome = IF total_failure(job.stats) THEN "raised" ELSE "returned"]
    /\ UNCHANGED <<rows, now, nextPk, pc, cand, found, ret>>

NextRun ==
    \/ \E commit \in BOOLEAN, targets \in SUBSET Devices, init_ok \in BOOLEAN :
          \E hosts \in (IF init_ok THEN SUBSET targets ELSE {{}}) :
            \E results \in [hosts -> Outcomes] :
                StartRun(commit, targets, init_ok, hosts, results)
    \/ ProcessDevice
    \/ EndRun
    \/ (job.phase = "done" /\ Tick)

SpecRun == InitRun /\ [][NextRun]_vars


(***************************************************************************)
(* SpecPurge: upserts, the clock and runs of PurgeOldRoutesJob, whose      *)
(* return value is kept in job.                                            *)
(***************************************************************************)
\* Mutant: the commit branch reports the stale rows and deletes none.
purge_never_deletes(R, t, days, commit) ==
    [rows |-> R, route_entries |-> Cardinality(stale(R, t, days))]

\* Mutant: the dry-run branch deletes as the commit branch does.
purge_always_deletes(R, t, days, commit) ==
    [rows |-> R \ stale(R, t, days), route_entries |-> Cardinality(stale(R, t, days))]

\* PurgeOldRoutesJob.run(retention_days=days, commit=commit) at time t on table
\* R: the table afterwards and the returned route_entries. commit deletes the
\* stale rows and returns how many were deleted; the dry run counts them.
purge(R, t, days, commit) ==
    IF commit
    THEN [rows |-> R \ stale(R, t, days),
          route_entries |-> Cardinality(R) - Cardinality(R \ stale(R, t, days))]
    ELSE [rows |-> R, route_entries |-> Cardinality(stale(R, t, days))]

\* The rows the purge job is tried on.
PurgeCandidates == {Base, Changed, [Base EXCEPT !.next_hop = "10.0.0.2"]}

\* One run of PurgeOldRoutesJob.
PurgeRun(days, commit) ==
    \E o \in {purge(rows, now, days, commit)} :
        /\ rows' = o.rows
        /\ job' = [phase |-> "purged", retention_days |-> days, commit |-> commit,
                   route_entries |-> o.route_entries, t |-> now]
        /\ UNCHANGED <<now, nextPk, pc, cand, found, ret>>

NextPurge ==
    \/ \E c \in PurgeCandidates : Upsert(c)
    \/ \E days \in RetentionDays, commit \in BOOLEAN : PurgeRun(days, commit)
    \/ Tick

SpecPurge == Init /\ [][NextPurge]_vars


(***************************************************************************)
(* The claims.                                                             *)
(***************************************************************************)
\* The identity key of a stored row, and of a candidate once normalized.
RowKey(r) == <<r.device, r.vrf, r.network, r.next_hop, r.protocol>>
KeyOf(c) == <<c.device, c.vrf, ip_network(c.network), c.next_hop, normalized_protocol(c)>>
KeyRows(R, c) == { r \in R : IsParsable(c.network) /\ RowKey(r) = KeyOf(c) }
Returned(res) == res \in {"created", "updated"}

\* C1: in every reachable state of the store, whatever calls of
\* update_or_create_entry (one after the other or interleaved), direct inserts
\* and purges led to it, no two rows share an identity key (device, vrf,
\* network, next_hop, protocol), two rows with vrf = null and the same other key
\* fields counting as the same key; and a direct insert of a key that is
\* already stored is refused and leaves the table as it is.
C1_OneRowPerIdentityKey ==
    /\ \A r, s \in rows : RowKey(r) = RowKey(s) => r = s
    /\ \A c \in StoredForm :
          KeyRows(rows, c) # {} =>
              /\ create(rows, NewEntry(c, nextPk, now, now)).rows = rows
              /\ create(rows, NewEntry(c, nextPk, now, now)).result = "IntegrityError"

\* C1's case: a writer lost the race for a no-VRF key to the other writer (its
\* insert was refused by the database), and the table holds the key once, beside
\* a row that differs from it in the vrf alone.
C1_Witness ==
    \E w \in Writers :
        /\ pc[w] = "idle"
        /\ ret[w].result = "IntegrityError"
        /\ cand[w].vrf = NoVrf
        /\ Cardinality(KeyRows(rows, cand[w])) = 1
        /\ \E r, s \in rows : r.vrf = NoVrf /\ s.vrf # NoVrf /\ SameRoute(r, s)

\* C2: a call of update_or_create_entry that returns created = true found no
\* row with the candidate's normalized identity key and left the table with
\* exactly one row more, the returned one; a call that returns created = false
\* found such a row, hands back that very row (its primary key) and leaves the
\* number of rows as it was. So of the calls that return, exactly those that
\* found no row of the key report created.
C2_CreatedIffNew ==
    [][\A w \in Writers :
         (pc[w] = "locked" /\ pc'[w] = "idle" /\ Returned(ret'[w].result)) =>
            LET before == KeyRows(rows, cand[w])
            IN  /\ (ret'[w].result = "created") <=> (before = {})
                /\ ret'[w].result = "created" =>
                      /\ Cardinality(rows') = Cardinality(rows) + 1
                      /\ \E r \in rows' \ rows :
                            r.pk = ret'[w].pk /\ RowKey(r) = KeyOf(cand[w])
                      /\ \A r \in rows : r.pk # ret'[w].pk
                /\ ret'[w].result = "updated" =>
                      /\ Cardinality(rows') = Cardinality(rows)
                      /\ \E r \in before : r.pk = ret'[w].pk
                      /\ \E r \in rows' : r.pk = ret'[w].pk /\ RowKey(r) = KeyOf(cand[w])
      ]_vars

\* C2's case: a call whose candidate spells a stored key differently (host bits,
\* upper case) returned created = false with the stored row, and another call
\* returned created = true.
C2_Witness ==
    /\ \E w \in Writers :
          /\ pc[w] = "idle" /\ cand[w] = Respelled /\ ret[w].result = "updated"
          /\ \E r \in rows : r.pk = ret[w].pk /\ RowKey(r) = KeyOf(Base)
    /\ \E w \in Writers : pc[w] = "idle" /\ ret[w].result = "created"


\* The call update_or_create_entry(c) on the present table returns a row.
Accepts(c) == Returned(update_or_create_entry(rows, c, nextPk, now, now).result)

\* C3: a row's first_seen is set when the row is created and keeps that value
\* for as long as the row exists, whatever upserts hit the row and whatever
\* mutable values they carry.
C3_FirstSeenNeverMutated ==
    [][\A r \in rows : \A s \in rows' : s.pk = r.pk => s.first_seen = r.first_seen]_vars

\* C3's case: a row that an upsert with other mutable values hit after the
\* row's creation.
C3_Witness ==
    \E r \in rows :
        /\ RowKey(r) = KeyOf(Changed)
        /\ r.metric = Changed.metric
        /\ r.first_seen < r.last_seen

\* C4: a row's last_seen never decreases, and an upsert that hits a row leaves
\* it with last_seen equal to the time of that upsert.
C4_LastSeenMonotone ==
    /\ [][\A r \in rows : \A s \in rows' : s.pk = r.pk => s.last_seen >= r.last_seen]_vars
    /\ [](\A c \in Candidates :
            (KeyRows(rows, c) # {} /\ Accepts(c)) =>
                \A o \in {update_or_create_entry(rows, c, nextPk, now, now)} :
                    \A r \in KeyRows(rows, c) :
                        \E s \in o.rows : s.pk = r.pk /\ s.last_seen = now)

\* C4's case: a row created at time 0 and hit by an upsert two days later.
C4_Witness ==
    \E r \in rows : r.first_seen = 0 /\ r.last_seen = now /\ now >= 2

\* C5: an upsert that hits an existing row sets the row's metric,
\* admin_distance, is_active, routing_table and outgoing_interface to the
\* candidate's values, leaves the row's identity fields and first_seen as they
\* were, and modifies no other row.
C5_HitRefreshesMutableFields ==
    \A c \in Candidates :
        (KeyRows(rows, c) # {} /\ Accepts(c)) =>
            \A o \in {update_or_create_entry(rows, c, nextPk, now, now)} :
                \A r \in KeyRows(rows, c) :
                    \E s \in o.rows :
                        /\ s.pk = r.pk
                        /\ s.metric = c.metric
                        /\ s.admin_distance = c.admin_distance
                        /\ s.is_active = c.is_active
                        /\ s.routing_table = c.routing_table
                        /\ s.outgoing_interface = c.outgoing_interface
                        /\ RowKey(s) = RowKey(r)
                        /\ s.first_seen = r.first_seen
                        /\ o.rows \ {s} = rows \ {r}

\* C5's case: beside another row, a row of Base's key that an upsert hit and
\* that carries the values of the candidate Changed.
C5_Witness ==
    \E r, s \in rows :
        /\ r # s
        /\ RowKey(r) = KeyOf(Base)
        /\ r.first_seen < r.last_seen
        /\ r.metric = Changed.metric
        /\ r.admin_distance = Changed.admin_distance
        /\ r.is_active = Changed.is_active
        /\ r.routing_table = Changed.routing_table
        /\ r.outgoing_interface = Changed.outgoing_interface

\* Calls of update_or_create_entry one after the other, as the tests of ECMP
\* make them: the table afterwards and the created flag of each call.
RECURSIVE UpsertSeq(_, _, _, _)
UpsertSeq(R, cs, pk, t) ==
    IF cs = <<>> THEN [rows |-> R, results |-> <<>>]
    ELSE LET o == update_or_create_entry(R, Head(cs), pk, t, t)
             rest == UpsertSeq(o.rows, Tail(cs), pk + 1, t)
         IN  [rows |-> rest.rows, results |-> <<o.result>> \o rest.results]

EcmpHops == {"10.0.0.1", "10.0.0.2", "10.0.0.3"}
\* The sequences of pairwise distinct next hops.
HopSeqs ==
    { hs \in UNION { [1..n -> EcmpHops] : n \in 0..Cardinality(EcmpHops) } :
        \A i, j \in DOMAIN hs : hs[i] = hs[j] => i = j }
\* The rows of Base's (device, vrf, network, protocol).
Group(R) ==
    { r \in R : /\ r.device = Base.device /\ r.vrf = Base.vrf
                /\ r.network = ip_network(Base.network)
                /\ r.protocol = normalized_protocol(Base) }

\* C6: upserting N observations of one (device, vrf, network, protocol) with N
\* pairwise distinct next hops leaves exactly one row per next hop, N rows when
\* none was stored before, and each next hop not stored before is reported as
\* created.
C6_EcmpOneRowPerNextHop ==
    \A hs \in HopSeqs :
        LET cs == [i \in DOMAIN hs |-> [Base EXCEPT !.next_hop = hs[i]]]
            old == { r.next_hop : r \in Group(rows) }
            new == { hs[i] : i \in DOMAIN hs }
        IN  \A o \in {UpsertSeq(rows, cs, nextPk, now)} :
            /\ Cardinality(Group(o.rows)) = Cardinality(old \cup new)
            /\ (old = {} => Cardinality(Group(o.rows)) = Len(hs))
            /\ \A h \in new : Cardinality({ r \in Group(o.rows) : r.next_hop = h }) = 1
            /\ \A i \in DOMAIN hs :
                  o.results[i] = (IF hs[i] \in old THEN "updated" ELSE "created")
            /\ o.rows \ Group(o.rows) = rows \ Group(rows)

\* C6's case: upserts left the table with two rows of one (device, vrf,
\* network, protocol) that differ in the next hop alone.
C6_Witness ==
    \E r, s \in Group(rows) :
        /\ r.next_hop # s.next_hop
        /\ Cardinality(Group(rows)) = 2
        /\ nextPk = 3

\* The run is at the end of its loop over the devices, before the summary.
LoopDone == job.phase = "devices" /\ job.todo = <<>>

\* Processing these routes raises an exception that run() does not expect: a
\* nexthop that is reached has a preference or metric int() cannot read.
Raises(routes) ==
    \E i \in DOMAIN routes :
        /\ ~is_excluded_route(routes[i].prefix)
        /\ \E j \in DOMAIN routes[i].nexthops :
              LET nh == routes[i].nexthops[j]
              IN  nh.dict /\ (~nh.preference.isnum \/ ~nh.metric.isnum)

\* The devices of the run that fail: no result, a failed fetch (transport,
\* unsupported platform), a result of the wrong type, an unexpected exception.
FailingHosts ==
    { d \in job.hosts : job.results[d].kind # "routes" \/ Raises(job.results[d].routes) }

\* The identity keys of the routes of device d that the store accepts.
ValidKeys(d) ==
    { KeyOf(Arguments(d, e.prefix, nh)) :
        <<e, nh>> \in { p \in UNION { {e} \X { e.nexthops[j] : j \in DOMAIN e.nexthops } :
                                        e \in { job.results[d].routes[i] :
                                                  i \in DOMAIN job.results[d].routes } } :
                          /\ IsParsable(p[1].prefix)
                          /\ ~is_excluded_route(p[1].prefix)
                          /\ p[2].dict
                          /\ Arguments(d, p[1].prefix, p[2]).protocol \in Protocol } }

\* C7: a run that got past target selection has raised if and only if, after
\* all devices were processed, devices_success = 0 and devices_failed > 0; in
\* every other case (Nornir not initialized, every device skipped, one device
\* with an empty table, partial failure) it has returned its statistics.
C7_RaisesIffTotalFailure ==
    (job.phase = "done" /\ job.runs > 0) =>
        /\ job.outcome \in {"raised", "returned"}
        /\ job.stats.devices_success + job.stats.devices_failed = Cardinality(job.hosts)
        /\ (job.outcome = "raised") <=>
              (job.stats.devices_success = 0 /\ job.stats.devices_failed > 0)
        /\ (job.outcome = "raised") <=> (job.hosts # {} /\ FailingHosts = job.hosts)

\* C7's case: a run over two devices, both of which failed, has raised.
C7_Witness ==
    /\ job.phase = "done"
    /\ job.outcome = "raised"
    /\ Cardinality(job.hosts) = 2
    /\ job.stats.devices_failed = 2

\* C8: at the end of the loop over the devices, devices_failed is the number of
\* failing devices and devices_success the number of the others, whatever the
\* order; in a committing run every valid route of every device that did not
\* fail is stored with last_seen at the time of the run, and a device that
\* failed leaves its rows as they were.
C8_FailureIsolation ==
    LoopDone =>
        /\ job.stats.devices_failed = Cardinality(FailingHosts)
        /\ job.stats.devices_success = Cardinality(job.hosts \ FailingHosts)
        /\ job.commit =>
              /\ \A d \in job.hosts \ FailingHosts :
                    \A k \in ValidKeys(d) :
                        \E r \in rows : RowKey(r) = k /\ r.last_seen = now
              /\ \A d \in FailingHosts :
                    { r \in rows : r.device = d } = { r \in job.rows0 : r.device = d }

\* C8's case: a committing run in which the first device failed with an
\* unexpected exception after one of its routes was written, and the second
\* device's two routes are stored.
C8_Witness ==
    /\ LoopDone
    /\ job.commit
    /\ job.hosts = {"d1", "d2"}
    /\ job.results["d1"] = BrokenTable
    /\ job.results["d2"] = EcmpTable
    /\ Cardinality({ r \in rows : r.device = "d2" /\ r.last_seen = now }) = 2
    /\ job.stats.devices_failed = 1
    /\ job.stats.devices_success = 1

\* C9: during and after a run with commit = false the table is what it was when
\* the run began, every field of every row included, and routes_created and
\* routes_updated are 0.
C9_DryRunWritesNothing ==
    (job.runs > 0 /\ ~job.commit) =>
        /\ rows = job.rows0
        /\ job.stats.routes_created = 0
        /\ job.stats.routes_updated = 0

\* C9's case: a dry run at the end of its loop that counted the routes of a
\* device whose rows, stored by an earlier run, were last seen before this run.
C9_Witness ==
    /\ LoopDone
    /\ ~job.commit
    /\ job.stats.routes_dryrun >= 2
    /\ \E d \in job.hosts :
          /\ job.results[d] = EcmpTable
          /\ Cardinality({ r \in rows : r.device = d /\ r.last_seen < now }) = 2

\* C10: routes_dryrun of a finished run with commit = false equals
\* routes_created + routes_updated of the run with commit = true on the same
\* answers of the devices and the same table.
C10_DryRunCountsWrites ==
    (job.phase = "done" /\ job.runs > 0 /\ ~job.commit) =>
        \A c \in {process_devices(job.rows0, InOrder(job.hosts), job.results, TRUE,
                                  nextPk, now, NoStats)} :
            job.stats.routes_dryrun = c.stats.routes_created + c.stats.routes_updated

\* The answers of the devices with the metric of every nexthop dict set to m:
\* the same identity keys with a mutable field changed.
WithMetric(results, m) ==
    [d \in DOMAIN results |->
        [results[d] EXCEPT !.routes =
            [i \in DOMAIN @ |->
                [@[i] EXCEPT !.nexthops =
                    [j \in DOMAIN @ |->
                        IF @[j].dict /\ @[j].metric.isnum
                        THEN [@[j] EXCEPT !.metric = Num(m)] ELSE @[j]]]]]]

\* The second collection: run() on the present table over the hosts of the
\* finished run, with the given answers.
SecondRun(results) ==
    process_devices(rows, InOrder(job.hosts), results, TRUE, nextPk, now, NoStats)

\* The identity keys the finished run observed on devices that did not fail.
ObservedKeys == UNION { ValidKeys(d) : d \in job.hosts \ FailingHosts }

\* C11: after a committed collection, a second committed collection that
\* reports the same identity keys with the metric changed to 5 has
\* routes_created = 0 and routes_updated = the number of observations, leaves
\* the number of rows and their primary keys as they were, and stores the new
\* metric in every observed row.
C11_SecondCollectionUpdates ==
    (job.phase = "done" /\ job.runs > 0 /\ job.commit /\ job.hosts # {}) =>
        \A c \in {SecondRun(WithMetric(job.results, 5))} :
            /\ c.stats.routes_created = 0
            /\ c.stats.routes_updated = Cardinality(ObservedKeys)
            /\ Cardinality(c.rows) = Cardinality(rows)
            /\ { r.pk : r \in c.rows } = { r.pk : r \in rows }
            /\ \A k \in ObservedKeys :
                  \E r \in rows : \E s \in c.rows :
                      /\ RowKey(r) = k /\ s.pk = r.pk /\ RowKey(s) = k
                      /\ s.metric = 5 /\ s.last_seen = now
                      /\ s.first_seen = r.first_seen

\* C11's case: the second of two committed collections of the same two ECMP
\* routes of a device, a day after the first, reported 0 created and 2 updated
\* and the table holds the two rows of the first, seen again.
C11_Witness ==
    /\ job.phase = "done" /\ job.commit /\ job.runs = 2
    /\ job.hosts = {"d1"}
    /\ job.results["d1"] = EcmpTable
    /\ job.stats.routes_created = 0
    /\ job.stats.routes_updated = 2
    /\ Cardinality(rows) = 2
    /\ { r.pk : r \in rows } = { r.pk : r \in job.rows0 }
    /\ \A r \in rows : r.first_seen < r.last_seen

C13_PurgeDryRunCounts ==
    [][\A days \in RetentionDays :
          PurgeRun(days, FALSE) =>
              /\ rows' = rows
              /\ job'.route_entries = Cardinality(rows \ purge(rows, now, days, TRUE).rows)
              /\ job'.route_entries = purge(rows, now, days, TRUE).route_entries
              /\ job'.route_entries = Cardinality({ r \in rows : r.last_seen < now - days })
      ]_vars

\* C13's case: a dry-run purge reported one row as stale and that row, last
\* seen before the cutoff, is still in the table beside a fresh one.
C13_Witness ==
    /\ job.phase = "purged" /\ ~job.commit
    /\ job.route_entries = 1
    /\ now = job.t
    /\ \E r, s \in rows :
          /\ r.last_seen < job.t - job.retention_days
          /\ s.last_seen >= job.t - job.retention_days

\* The network lies in a reserved range of its address family: it is at least
\* as long as the range and agrees with it on the range's leading bits.
InReserved(n) ==
    /\ IsParsable(n)
    /\ \E q \in EXCLUDED_ROUTE_NETWORKS :
          /\ q.fam = n.fam
          /\ n.len >= q.len
          /\ \A i \in 1..Len(q.addr) :
                LET w == GroupBits(q.fam)
                    k == KeptBits(i, q.len, w)
                IN  n.addr[i] \div (2 ^ (w - k)) = q.addr[i] \div (2 ^ (w - k))

\* Prefixes the spec and the tests name as excluded: the reserved ranges, their
\* subnets and hosts, also spelled with host bits.
ExcludedCases ==
    { Net4(224, 0, 0, 0, 4), Net4(239, 1, 2, 0, 24), Net4(239, 255, 255, 255, 32),
      Net4(169, 254, 0, 0, 16), Net4(169, 254, 1, 1, 16), Net4(169, 254, 7, 0, 24),
      Net4(127, 0, 0, 0, 8), Net4(127, 0, 0, 1, 32),
      Net6(65280, 0, 0, 8), Net6(65282, 0, 1, 128),
      Net6(65152, 0, 0, 10), Net6(65152, 0, 1, 128), Net6(65215, 0, 0, 16),
      Net6(0, 0, 1, 128) }

\* Prefixes that are not excluded: ordinary networks, the default routes,
\* supernets and neighbours of the reserved ranges, and text that is no prefix.
AllowedCases ==
    { Net4(10, 0, 0, 0, 8), Net4(0, 0, 0, 0, 0), Net4(192, 168, 1, 0, 24),
      Net4(224, 0, 0, 0, 3), Net4(240, 0, 0, 0, 4), Net4(169, 254, 0, 0, 15),
      Net4(169, 255, 0, 0, 16), Net4(126, 0, 0, 0, 8), Net4(128, 0, 0, 1, 32),
      Net6(8193, 3512, 0, 32), Net6(0, 0, 0, 0), Net6(65216, 0, 0, 10),
      Net6(65152, 0, 0, 9), Net6(0, 0, 2, 128), Net6(0, 0, 0, 127),
      NotAPrefix, [fam |-> 4, addr |-> <<10, 0, 0, 0>>, len |-> 33],
      [fam |-> 4, addr |-> <<224, 0, 0, 256>>, len |-> 4] }

\* is_excluded_route on the named prefixes: true of the excluded ones, false of
\* the others, and in agreement with InReserved on all of them.
ExclusionVerdicts ==
    /\ \A p \in ExcludedCases : is_excluded_route(p)
    /\ \A p \in AllowedCases : ~is_excluded_route(p)
    /\ \A p \in ExcludedCases \cup AllowedCases : is_excluded_route(p) <=> InReserved(p)

\* The prefixes in reserved ranges that the devices that did not fail reported.
ReservedReported ==
    { p \in UNION { {d} \X DOMAIN job.results[d].routes : d \in job.hosts \ FailingHosts } :
        InReserved(job.results[p[1]].routes[p[2]].prefix) }

\* C14: is_excluded_route holds exactly of the prefixes that are equal to, or a
\* subnet of, a reserved range of their address family, and not of other or
\* unparsable prefixes; no run ever leaves a row whose network lies in a
\* reserved range, and at the end of the device loop routes_excluded counts the
\* reported prefixes that lie in one.
C14_ReservedPrefixesExcluded ==
    /\ ExclusionVerdicts
    /\ \A r \in rows : ~InReserved(r.network)
    /\ LoopDone => job.stats.routes_excluded = Cardinality(ReservedReported)

\* C14's case: a committing run over a device that reported a link-local prefix
\* among others counted it as excluded and stored another route of the device.
C14_Witness ==
    /\ LoopDone /\ job.commit
    /\ job.hosts = {"d1"}
    /\ job.results["d1"] = MixedTable
    /\ job.stats.routes_excluded = 1
    /\ job.stats.routes_created = 1
    /\ \E r \in rows : r.device = "d1" /\ r.last_seen = now

\* C15: during and after a run, every row the table held when the run began
\* and whose identity key the run did not observe is still in the table with
\* every field as it was, whether its device was scanned or not: a row of the
\* beginning that is gone or changed has an identity key the run observed.
C15_NoWithdrawalInference ==
    job.runs > 0 =>
        \A r \in job.rows0 \ rows : RowKey(r) \in ObservedKeys

\* C15's case: a committed run scanned a device that no longer reports the two
\* routes an earlier run stored for it and reports another one; the two rows
\* are in the table as the earlier run left them, beside the new row.
C15_Witness ==
    /\ job.phase = "done" /\ job.commit /\ job.runs = 2
    /\ job.hosts = {"d1"}
    /\ job.results["d1"] = MixedTable
    /\ job.stats.routes_created = 1
    /\ Cardinality(job.rows0) = 2
    /\ \A r \in job.rows0 :
          /\ r.device = "d1"
          /\ RowKey(r) \notin ObservedKeys
          /\ r.last_seen < now
          /\ r \in rows
    /\ Cardinality(rows) = 3

\* Writer v's call created the row of writer w's key after w's lookup found
\* none: the two calls on the key overlapped.
CreatedSince(v, w) ==
    /\ v # w
    /\ pc[v] = "idle" /\ ret[v].result = "created"
    /\ pc[w] = "locked" /\ found[w] = NoRow
    /\ KeyOf(cand[v]) = KeyOf(cand[w])
    /\ \E r \in rows : r.pk = ret[v].pk /\ RowKey(r) = KeyOf(cand[w])

\* C16: a call of update_or_create_entry that holds the lock on its key's row,
\* or whose key another writer's overlapping call has created since its lookup,
\* completes without error, leaves exactly one row of the key, and does not
\* report created = true when the other call did.
C16_ConcurrentUpsertsSurvive ==
    [][\A w \in Writers :
         (/\ pc[w] = "locked" /\ pc'[w] = "idle"
          /\ found[w] # NoRow \/ \E v \in Writers : CreatedSince(v, w)) =>
            /\ Returned(ret'[w].result)
            /\ Cardinality(KeyRows(rows', cand[w])) = 1
            /\ \A v \in Writers : CreatedSince(v, w) => ret'[w].result # "created"
      ]_vars

(***************************************************************************)
(* Target selection: BaseCollectionJob.get_target_devices over an          *)
(* inventory of two devices.  A queryset is the number of times each       *)
(* device occurs in it.                                                    *)
(***************************************************************************)
NoDevice == "no device"
NoGroup == "no group"
NoPlatform == "no platform"
NoIp == "no address"
SUPPORTED_PLATFORMS == {"cisco_ios", "arista_eos"}
active_statuses == {"Active", "Staged"}

\* A location with its descendants: room lies in site.
descendants(loc) == IF loc = "site" THEN {"site", "room"} ELSE {loc}

\* The attributes of a device that the selection reads.
Profiles ==
    [status : {"Active", "Staged", "Offline"},
     platform : {NoPlatform, "cisco_ios", "arista_eos", "paloalto_panos"},
     primary_ip4 : {NoIp, "192.0.2.1"},
     role : {"r1", "r2"},
     location : {"site", "room", "other"},
     tags : SUBSET {"t1", "t2"},
     member : BOOLEAN]

\* The inventory: d1 with the given attributes beside a reachable d2.
InventoryWith(p) ==
    [d \in Devices |->
        IF d = "d1" THEN p
        ELSE [status |-> "Active", platform |-> "arista_eos", primary_ip4 |-> "192.0.2.2",
              role |-> "r2", location |-> "other", tags |-> {}, member |-> FALSE]]

\* The job's filter variables; an empty list is no filter.
Filters ==
    [device : {NoDevice} \cup Devices,
     dynamic_group : {NoGroup, "g1"},
     device_role : {{}, {"r1"}, {"r1", "r2"}},
     location : {{}, {"site"}, {"room"}, {"room", "other"}},
     tag : {{}, {"t1"}, {"t1", "t2"}}]

\* queryset.filter(...) on a condition per device.
filter(q, keep) == [d \in DOMAIN q |-> IF d \in keep THEN q[d] ELSE 0]

\* queryset.distinct()
distinct(q) == [d \in DOMAIN q |-> IF q[d] > 0 THEN 1 ELSE 0]

\* Mutant: the selection without the restriction to the supported platforms.
get_target_devices_any_platform(inv, device, dynamic_group, device_role, location, tag) ==
    IF device # NoDevice
    THEN [d \in DOMAIN inv |-> IF d = device THEN 1 ELSE 0]
    ELSE LET all == [d \in DOMAIN inv |-> 1]
             base == filter(all, { d \in DOMAIN inv :
                                     /\ inv[d].status \in active_statuses
                                     /\ inv[d].platform # NoPlatform
                                     /\ inv[d].primary_ip4 # NoIp })
             grouped == IF dynamic_group # NoGroup
                        THEN filter(base, { d \in DOMAIN inv : inv[d].member })
                        ELSE base
             by_role == IF device_role # {}
                        THEN filter(grouped, { d \in DOMAIN inv : inv[d].role \in device_role })
                        ELSE grouped
             location_ids == UNION { descendants(loc) : loc \in location }
             by_location == IF location # {}
                            THEN filter(by_role, { d \in DOMAIN inv :
                                                     inv[d].location \in location_ids })
                            ELSE by_role
             by_tag == filter(by_location, { d \in DOMAIN inv :
                                               \A t \in tag : t \in inv[d].tags })
         IN  distinct(by_tag)

\* get_target_devices: the explicit device alone, or the reachable devices
\* that pass the group, role, location and tag filters and run a supported
\* platform.
get_target_devices(inv, device, dynamic_group, device_role, location, tag) ==
    IF device # NoDevice
    THEN [d \in DOMAIN inv |-> IF d = device THEN 1 ELSE 0]
    ELSE LET all == [d \in DOMAIN inv |-> 1]
             base == filter(all, { d \in DOMAIN inv :
                                     /\ inv[d].status \in active_statuses
                                     /\ inv[d].platform # NoPlatform
                                     /\ inv[d].primary_ip4 # NoIp })
             grouped == IF dynamic_group # NoGroup
                        THEN filter(base, { d \in DOMAIN inv : inv[d].member })
                        ELSE base
             by_role == IF device_role # {}
                        THEN filter(grouped, { d \in DOMAIN inv : inv[d].role \in device_role })
                        ELSE grouped
             location_ids == UNION { descendants(loc) : loc \in location }
             by_location == IF location # {}
                            THEN filter(by_role, { d \in DOMAIN inv :
                                                     inv[d].location \in location_ids })
                            ELSE by_role
             by_tag == filter(by_location, { d \in DOMAIN inv :
                                               \A t \in tag : t \in inv[d].tags })
             supported == filter(by_tag, { d \in DOMAIN inv :
                                             inv[d].platform \in SUPPORTED_PLATFORMS })
         IN  distinct(supported)

\* Before the selection: an inventory and an empty table.
InitSelect ==
    /\ rows = {}
    /\ now = 0
    /\ nextPk = 1
    /\ pc = [w \in Writers |-> "idle"]
    /\ cand = [w \in Writers |-> Base]
    /\ found = [w \in Writers |-> NoRow]
    /\ ret = [w \in Writers |-> [result |-> "none", pk |-> NoRow]]
    /\ \E p \in Profiles : job = [phase |-> "inventory", inventory |-> InventoryWith(p)]

\* run() resolving its target devices from the job's variables.
SelectTargets(f) ==
    /\ job.phase = "inventory"
    /\ job' = [phase |-> "targets", inventory |-> job.inventory, filters |-> f,
               devices |-> get_target_devices(job.inventory, f.device, f.dynamic_group,
                                              f.device_role, f.location, f.tag)]
    /\ UNCHANGED <<rows, now, nextPk, pc, cand, found, ret>>

NextSelect == \E f \in Filters : SelectTargets(f)

SpecSelect == InitSelect /\ [][NextSelect]_vars

MaxRoutes == 2

VALID_PROTOCOLS == Protocol

EOS_PROTOCOL_MAP ==
    [k \in {"ebgp", "ibgp", "bgp", "ospf", "ospfinter", "ospfintra", "ospfext1", "ospfext2",
            "ospfnssa1", "ospfnssa2", "static", "connected", "local", "isis", "rip", "eigrp",
            "aggregate"} |->
        CASE k \in {"ebgp", "ibgp", "bgp"} -> "bgp"
          [] k \in {"ospf", "ospfinter", "ospfintra", "ospfext1", "ospfext2",
                    "ospfnssa1", "ospfnssa2"} -> "ospf"
          [] k \in {"static", "aggregate"} -> "static"
          [] OTHER -> k]

IOS_PROTOCOL_MAP ==
    [k \in {"C", "L", "S", "R", "M", "B", "D", "EX", "O", "IA", "N1", "N2", "E1", "E2",
            "i", "su", "L1", "L2", "ia"} |->
        CASE k = "C" -> "connected"
          [] k = "L" -> "local"
          [] k = "S" -> "static"
          [] k = "R" -> "rip"
          [] k = "M" -> "unknown"
          [] k = "B" -> "bgp"
          [] k \in {"D", "EX"} -> "eigrp"
          [] k \in {"O", "IA", "N1", "N2", "E1", "E2"} -> "ospf"
          [] OTHER -> "isis"]

\* A route without routeType.
NoLabel == "no label"

\* routeType values of EOS routes: the labels of the table as the device
\* spells them, other spellings, and labels the table does not have.
EosLabels ==
    {"eBGP", "iBGP", "bgp", "BGP", "ospf", "ospfInter", "ospfIntra", "ospfExt1", "ospfExt2",
     "ospfNssa1", "ospfNssa2", "static", "connected", "local", "isis", "rip", "eigrp",
     "aggregate", "unknownProto", "unknown", "Unknown", "martian", "C", "", NoLabel}

\* PROTOCOL values of IOS rows: the codes of the table and others.
IosCodes ==
    DOMAIN IOS_PROTOCOL_MAP \cup {"", "X", "c", "l", "I", "ospf", "bgp", "unknown", "%"}

\* Mutant: the EOS label is passed through without the check against the
\* protocol choices.
eos_protocol_unchecked(routeType) ==
    LET protocol_raw == lower(IF routeType \in {NoLabel, ""} THEN "unknown" ELSE routeType)
    IN  IF protocol_raw \in DOMAIN EOS_PROTOCOL_MAP
        THEN EOS_PROTOCOL_MAP[protocol_raw] ELSE protocol_raw

\* _parse_eos_routes, lines 127-129.
eos_protocol(routeType) ==
    LET protocol_raw == lower(IF routeType \in {NoLabel, ""} THEN "unknown" ELSE routeType)
        protocol == IF protocol_raw \in DOMAIN EOS_PROTOCOL_MAP
                    THEN EOS_PROTOCOL_MAP[protocol_raw] ELSE protocol_raw
    IN  IF protocol \notin VALID_PROTOCOLS THEN "unknown" ELSE protocol

\* _parse_ios_routes, lines 191-194.
ios_protocol(protocol_code) ==
    LET protocol == IF protocol_code \in DOMAIN IOS_PROTOCOL_MAP
                    THEN IOS_PROTOCOL_MAP[protocol_code] ELSE "unknown"
    IN  IF protocol \notin VALID_PROTOCOLS THEN "unknown" ELSE protocol

\* Before parsing the output of a device of either platform.
InitParse ==
    /\ rows = {}
    /\ now = 0
    /\ nextPk = 1
    /\ pc = [w \in Writers |-> "idle"]
    /\ cand = [w \in Writers |-> Base]
    /\ found = [w \in Writers |-> NoRow]
    /\ ret = [w \in Writers |-> [result |-> "none", pk |-> NoRow]]
    /\ \E driver \in SUPPORTED_PLATFORMS :
          job = [phase |-> "parse", driver |-> driver, labels |-> <<>>, nexthops |-> <<>>]

\* One pass of the loop of _parse_eos_routes over the routes of a VRF.
ParseEosRoute(routeType) ==
    /\ job.phase = "parse" /\ job.driver = "arista_eos"
    /\ Len(job.labels) < MaxRoutes
    /\ job' = [job EXCEPT !.labels = Append(@, routeType),
                          !.nexthops = Append(@, [NextHop("1.2.3.4") EXCEPT
                                                     !.protocol = eos_protocol(routeType)])]
    /\ UNCHANGED <<rows, now, nextPk, pc, cand, found, ret>>

\* One pass of the loop of _parse_ios_routes over the parsed rows.
ParseIosRow(protocol_code) ==
    /\ job.phase = "parse" /\ job.driver = "cisco_ios"
    /\ Len(job.labels) < MaxRoutes
    /\ job' = [job EXCEPT !.labels = Append(@, protocol_code),
                          !.nexthops = Append(@, [NextHop("1.2.3.4") EXCEPT
                                                     !.protocol = ios_protocol(protocol_code)])]
    /\ UNCHANGED <<rows, now, nextPk, pc, cand, found, ret>>

NextParse ==
    \/ \E routeType \in EosLabels : ParseEosRoute(routeType)
    \/ \E protocol_code \in IosCodes : ParseIosRow(protocol_code)

SpecParse == InitParse /\ [][NextParse]_vars

\* The protocol the tables of the spec give a label, "unknown" for every other.
ExpectedProtocol(driver, label) ==
    IF driver = "arista_eos"
    THEN CASE label \in {"eBGP", "iBGP", "bgp", "BGP"} -> "bgp"
           [] label \in {"ospf", "ospfInter", "ospfIntra", "ospfExt1", "ospfExt2",
                         "ospfNssa1", "ospfNssa2"} -> "ospf"
           [] label \in {"static", "aggregate"} -> "static"
           [] label \in {"connected", "local", "isis", "rip", "eigrp"} -> label
           [] OTHER -> "unknown"
    ELSE CASE label = "C" -> "connected"
           [] label = "L" -> "local"
           [] label = "S" -> "static"
           [] label = "R" -> "rip"
           [] label = "B" -> "bgp"
           [] label \in {"D", "EX"} -> "eigrp"
           [] label \in {"O", "IA", "N1", "N2", "E1", "E2"} -> "ospf"
           [] label \in {"i", "su", "L1", "L2", "ia"} -> "isis"
           [] OTHER -> "unknown"

\* C18: every nexthop either parser emits has a protocol among ospf, bgp,
\* static, connected, isis, rip, eigrp, local and unknown: the protocol the
\* fixed table gives the route's label (eBGP and iBGP bgp, ospfInter and
\* ospfExt1 ospf, aggregate static; C connected, O ospf, B bgp), and unknown
\* for a label that is missing, empty or not in the table.
C18_ProtocolLabelsMapped ==
    job.phase = "parse" =>
        \A i \in 1..Len(job.nexthops) :
            /\ job.nexthops[i].protocol \in
                  {"ospf", "bgp", "static", "connected", "isis", "rip", "eigrp", "local",
                   "unknown"}
            /\ job.nexthops[i].protocol = ExpectedProtocol(job.driver, job.labels[i])

\* C18's case: the EOS parser emitted bgp for an eBGP route and unknown for a
\* route of a type the table does not have.
C18_Witness ==
    /\ job.phase = "parse" /\ job.driver = "arista_eos"
    /\ job.labels = <<"eBGP", "unknownProto">>
    /\ job.nexthops[1].protocol = "bgp"
    /\ job.nexthops[2].protocol = "unknown"

\* Networks as callers spell them: with and without host bits, of lengths on
\* and off the group boundaries, of both families.
NormalizationInputs ==
    { Net4(10, 0, 0, 1, 24), Net4(10, 0, 0, 0, 24), Net4(10, 0, 0, 255, 24),
      Net4(192, 168, 77, 5, 16), Net4(10, 200, 3, 1, 9), Net4(10, 1, 2, 3, 0),
      Net4(10, 1, 2, 3, 31), Net4(10, 1, 2, 3, 32),
      Net6(8193, 3512, 1, 32), Net6(8193, 3513, 1, 31), Net6(65215, 0, 1, 10),
      Net6(8193, 3512, 1, 128) }

\* Spellings with host bits, of a network the table may hold and of others.
HostBitSpellings ==
    { Net4(10, 0, 0, 1, 24), Net4(10, 0, 0, 255, 24), Net6(8193, 3513, 1, 31) }

\* prefix_length values a caller may supply with the network.
SuppliedLengths == {0, 9, 24, 32, 128}

\* All bits of n after the first n.len are zero.
HostBitsZero(n) ==
    \A i \in 1..Len(n.addr) :
        LET w == GroupBits(n.fam)
        IN  n.addr[i] % (2 ^ (w - KeptBits(i, n.len, w))) = 0

\* m and n are prefixes of one family and length with the same leading bits.
SamePrefix(m, n) ==
    /\ m.fam = n.fam /\ m.len = n.len /\ Len(m.addr) = Len(n.addr)
    /\ \A i \in 1..Len(n.addr) :
          LET w == GroupBits(n.fam)
              k == KeptBits(i, n.len, w)
          IN  m.addr[i] \div (2 ^ (w - k)) = n.addr[i] \div (2 ^ (w - k))

\* Normalization on the inputs: the result is the input's prefix with the host
\* bits zeroed, normalizing it again changes nothing, a row validated with any
\* supplied prefix_length gets the network's own, and the two spellings have
\* one identity key.
NormalizationVerdicts ==
    \A n \in NormalizationInputs :
        LET m == ip_network(n)
        IN  /\ IsParsable(m) /\ SamePrefix(m, n) /\ HostBitsZero(m)
            /\ prefixlen(m) = n.len
            /\ ip_network(m) = m /\ prefixlen(ip_network(m)) = prefixlen(m)
            /\ KeyOf([Base EXCEPT !.network = n]) = KeyOf([Base EXCEPT !.network = m])
            /\ \A pl \in SuppliedLengths :
                  LET r == [NewEntry(Base, 1, 0, 0) EXCEPT !.network = n, !.prefix_length = pl]
                      v == full_clean({}, r)
                  IN  /\ v.ok
                      /\ v.row.network = m
                      /\ HostBitsZero(v.row.network)
                      /\ v.row.prefix_length = n.len
                      /\ full_clean({}, v.row) = v

\* C19: normalization zeroes the host bits of every valid network, takes the
\* prefix length from the network whatever prefix_length was supplied, and
\* changes nothing when applied again; the row a call of
\* update_or_create_entry returned holds the candidate's network in that form
\* with its prefix length, and a call with a network spelled with host bits
\* has the result and leaves the table that the call with the canonical
\* spelling has on the same table.
C19_NetworkNormalization ==
    /\ NormalizationVerdicts
    /\ \A w \in Writers :
          (pc[w] = "idle" /\ Returned(ret[w].result)) =>
              \A r \in rows :
                  r.pk = ret[w].pk =>
                      /\ SamePrefix(r.network, cand[w].network)
                      /\ HostBitsZero(r.network)
                      /\ r.prefix_length = cand[w].network.len
                      /\ ip_network(r.network) = r.network
    /\ \A n \in HostBitSpellings :
          update_or_create_entry(rows, [Base EXCEPT !.network = n], nextPk, now, now)
            = update_or_create_entry(rows, [Base EXCEPT !.network = ip_network(n)],
                                     nextPk, now, now)

\* C19's case: a call with 10.0.0.1/24 created the row of 10.0.0.0/24 with
\* prefix length 24, and a call with 10.0.0.0/24 then updated that row.
C19_Witness ==
    \E w, v \in Writers :
        /\ pc[w] = "idle" /\ cand[w] = Respelled /\ ret[w].result = "created"
        /\ pc[v] = "idle" /\ cand[v] = Base /\ ret[v].result = "updated"
        /\ ret[v].pk = ret[w].pk
        /\ \E r \in rows :
              /\ r.pk = ret[w].pk
              /\ r.network = Net4(10, 0, 0, 0, 24)
              /\ r.prefix_length = 24

\* C20: a row that an upsert creates has first_seen = last_seen = the time of
\* that upsert, and so every stored row has first_seen <= last_seen.
C20_CreatedAtObservationTime ==
    /\ [][\A s \in rows' :
            (\A r \in rows : r.pk # s.pk) =>
                s.first_seen = s.last_seen /\ s.last_seen = now]_vars
    /\ [](\A r \in rows : r.first_seen <= r.last_seen)

\* C21: a pass of the device loop over a device whose processing raises an
\* unexpected exception leaves the table exactly as it was before the pass and
\* adds one to devices_failed and nothing to any other statistic.
C21_DeviceAtomicity ==
    [][(/\ job.phase = "devices" /\ job.todo # <<>>
        /\ job'.phase = "devices" /\ job'.todo # job.todo
        /\ job.results[Head(job.todo)].kind = "routes"
        /\ Raises(job.results[Head(job.todo)].routes)) =>
            /\ rows' = rows
            /\ job'.stats = [job.stats EXCEPT !.devices_failed = @ + 1]
      ]_vars

\* C21's case: the second of two committing runs reached a nexthop it could not
\* read after it had seen a stored route of the device again; the device is
\* counted as failed, nothing else is counted, and the table is that of the
\* start of the run, the row not refreshed.
C21_Witness ==
    /\ LoopDone /\ job.commit /\ job.runs = 2
    /\ job.hosts = {"d1"}
    /\ job.results["d1"] = BrokenTable
    /\ job.stats = [NoStats EXCEPT !.devices_total = 1, !.devices_failed = 1]
    /\ rows = job.rows0
    /\ \E r \in rows : r.device = "d1" /\ r.next_hop = "10.0.0.1" /\ r.last_seen < now

\* The observations of these routes that run() counts as invalid: nexthops of
\* prefixes that are not excluded which are no dict, or whose prefix does not
\* parse, or whose protocol is none of the protocol choices.
InvalidObservations(d, routes) ==
    { p \in UNION { {i} \X DOMAIN routes[i].nexthops : i \in DOMAIN routes } :
        /\ ~is_excluded_route(routes[p[1]].prefix)
        /\ \/ ~routes[p[1]].nexthops[p[2]].dict
           \/ ~IsParsable(routes[p[1]].prefix)
           \/ Arguments(d, routes[p[1]].prefix, routes[p[1]].nexthops[p[2]]).protocol
                 \notin Protocol }

\* C22: a committing pass of the device loop over a device whose processing
\* does not raise counts every rejected route once in routes_invalid and the
\* device in devices_success, and leaves every valid route of the device
\* stored and seen at the time of the run; and on every table a run leaves, a
\* pass over a device that reports an unparsable prefix, then a route with an
\* unknown protocol, then a valid route counts two invalid routes, does not
\* fail, and stores the valid route.
C22_InvalidRouteSkipped ==
    /\ [][(/\ job.phase = "devices" /\ job.todo # <<>> /\ job.commit
           /\ job'.phase = "devices" /\ job'.todo # job.todo
           /\ job.results[Head(job.todo)].kind = "routes"
           /\ ~Raises(job.results[Head(job.todo)].routes)) =>
               /\ job'.stats.routes_invalid = job.stats.routes_invalid
                     + Cardinality(InvalidObservations(Head(job.todo),
                                                       job.results[Head(job.todo)].routes))
               /\ job'.stats.devices_success = job.stats.devices_success + 1
               /\ job'.stats.devices_failed = job.stats.devices_failed
               /\ \A k \in ValidKeys(Head(job.todo)) :
                     \E r \in rows' : RowKey(r) = k /\ r.last_seen = now
         ]_vars
    /\ [](job.phase = "done" =>
            \A o \in {process_device(rows, "d1", InvalidFirstTable, TRUE, nextPk, now)} :
                /\ ~o.error
                /\ o.invalid = 2
                /\ o.created + o.updated = 1
                /\ \E r \in o.rows :
                      /\ RowKey(r) = KeyOf(Arguments("d1", Net4(10, 0, 0, 0, 24),
                                                     NextHop("10.0.0.2")))
                      /\ r.last_seen = now
                /\ \A r \in rows : r.next_hop # "10.0.0.2" => r \in o.rows)

\* C22's case: a committing run over a device that reported a valid route,
\* then an unparsable prefix, then a route with an unknown protocol: the
\* rejected routes are counted beside the nexthop that is no dict, the valid
\* route stays stored, and the device succeeded.
C22_Witness ==
    /\ LoopDone /\ job.commit
    /\ job.hosts = {"d1"}
    /\ job.results["d1"] = MixedTable
    /\ job.stats.routes_invalid = 3
    /\ job.stats.routes_created = 1
    /\ job.stats.devices_success = 1
    /\ job.stats.devices_failed = 0
    /\ \E r \in rows : r.device = "d1" /\ r.vrf = "v1" /\ r.last_seen = now

(***************************************************************************)
(* Calls of update_or_create_entry one after the other, each leaving what  *)
(* it returned or raised with its caller.                                  *)
(***************************************************************************)
Call(c) ==
    \E tSave \in {now, now + 1} :
      /\ tSave <= MaxTime
      /\ \E o \in {update_or_create_entry(rows, c, nextPk, now, tSave)} :
            /\ o.result = "created" => nextPk <= MaxPk
            /\ o.result # "created" => tSave = now
            /\ rows' = o.rows
            /\ nextPk' = IF o.result = "created" THEN nextPk + 1 ELSE nextPk
            /\ now' = tSave
            /\ cand' = [cand EXCEPT !["w1"] = c]
            /\ ret' = [ret EXCEPT !["w1"] = [result |-> o.result, pk |-> o.pk]]
            /\ UNCHANGED <<pc, found, job>>

NextCall ==
    \/ \E c \in Candidates : Call(c)
    \/ Tick

SpecCall == Init /\ [][NextCall]_vars

\* The candidates the claim names: an unparsable network, an outgoing
\* interface of another device.
Rejected(c) ==
    \/ ~IsParsable(c.network)
    \/ c.outgoing_interface # NoIface /\ IfaceDevice[c.outgoing_interface] # c.device

\* C23: a call of update_or_create_entry that raises leaves the table as it
\* was, no row added and the row of the candidate's key, if there is one, with
\* its last_seen and every other field unchanged; a call with an unparsable
\* network raises ValueError and a call with an outgoing interface of another
\* device raises ValidationError, on every table.
C23_RejectedUpsertChangesNothing ==
    /\ [][(/\ <<cand, ret>>' # <<cand, ret>>
           /\ ret'["w1"].result \in {"ValueError", "ValidationError"}) => rows' = rows]_vars
    /\ [](\A c \in Candidates :
            Rejected(c) =>
                \A o \in {update_or_create_entry(rows, c, nextPk, now, now)} :
                    /\ o.result = IF IsParsable(c.network)
                                  THEN "ValidationError" ELSE "ValueError"
                    /\ o.rows = rows)

\* C23's case: a call whose outgoing interface belongs to another device was
\* rejected a day after a call stored the row of its key; the row has the
\* last_seen and the interface the first call gave it.
C23_Witness ==
    /\ cand["w1"] = [Base EXCEPT !.outgoing_interface = "e2"]
    /\ ret["w1"].result = "ValidationError"
    /\ \E r \in rows :
          /\ RowKey(r) = KeyOf(Base)
          /\ r.last_seen < now
          /\ r.outgoing_interface = NoIface

(***************************************************************************)
(* The persistence loop of one device, its prefixes and next hops taken in *)
(* any order.                                                              *)
(***************************************************************************)
\* One prefix seen in the global table and in a routing table that has no VRF.
CollidingTable ==
    Routes(<< [prefix |-> Net4(10, 0, 0, 0, 24),
               nexthops |-> <<NextHop("10.0.0.1"),
                              [NextHop("10.0.0.1") EXCEPT !.routing_table = "blue"]>>] >>)

\* Two spellings of one network as two prefixes of the dict, in different VRFs.
TwoPrefixTable == Routes(<<MixedTable.routes[2], EcmpTable.routes[1]>>)

OrderTables == {EcmpTable, TwoPrefixTable, InvalidFirstTable, CollidingTable, BrokenTable}

\* The orders of a sequence.
PermSeqs(s) == { [i \in DOMAIN s |-> s[f[i]]] : f \in Permutations(DOMAIN s) }

\* The orders of a routes dict: of its prefixes and of each prefix's next hops.
Reorderings(routes) ==
    UNION { { [i \in DOMAIN p |-> [p[i] EXCEPT !.nexthops = g[i]]] :
                g \in { h \in [DOMAIN p -> UNION { PermSeqs(p[i].nexthops) : i \in DOMAIN p }] :
                          \A i \in DOMAIN p : h[i] \in PermSeqs(p[i].nexthops) } } :
            p \in PermSeqs(routes) }

\* The tables, each with each of its orders.
Orders == UNION { {T} \X Reorderings(T.routes) : T \in OrderTables }

\* The pass of the device loop over d1 with commit = true, over the routes of
\* table T in the given order.
ReconcileDevice(T, routes) ==
    /\ \E o \in {process_device(rows, "d1", Routes(routes), TRUE, nextPk, now)} :
          /\ o.pk <= MaxPk + 1
          /\ rows' = o.rows
          /\ nextPk' = o.pk
          /\ job' = [phase |-> "reconciled", table |-> T, rows0 |-> rows,
                     t |-> now, error |-> o.error,
                     created |-> o.created, updated |-> o.updated]
    /\ UNCHANGED <<now, pc, cand, found, ret>>

NextOrder ==
    \/ \E p \in Orders : ReconcileDevice(p[1], p[2])
    \/ Tick

SpecOrder == Init /\ [][NextOrder]_vars

\* A table without the primary keys and the timestamps of its rows.
Contents(R) ==
    { [device |-> r.device, vrf |-> r.vrf, network |-> r.network,
       prefix_length |-> r.prefix_length, protocol |-> r.protocol, next_hop |-> r.next_hop,
       outgoing_interface |-> r.outgoing_interface, metric |-> r.metric,
       admin_distance |-> r.admin_distance, is_active |-> r.is_active,
       routing_table |-> r.routing_table] : r \in R }

\* The observations of the routes that the store accepts.
ValidObservations(d, routes) ==
    { p \in UNION { {i} \X DOMAIN routes[i].nexthops : i \in DOMAIN routes } :
        /\ ~is_excluded_route(routes[p[1]].prefix)
        /\ p \notin InvalidObservations(d, routes) }

\* No two accepted observations of the routes have one identity key.
DistinctKeys(d, routes) ==
    \A p, q \in ValidObservations(d, routes) :
        p # q => KeyOf(Arguments(d, routes[p[1]].prefix, routes[p[1]].nexthops[p[2]]))
                   # KeyOf(Arguments(d, routes[q[1]].prefix, routes[q[1]].nexthops[q[2]]))

\* Every order of the routes of the last pass gives, from the table the pass
\* began with, the contents and the counts the pass gave.
OrderIndependent ==
    \A p \in { q \in Orders : q[1] = job.table } :
        \A o \in {process_device(job.rows0, "d1", Routes(p[2]), TRUE,
                                 nextPk - job.created, job.t)} :
            /\ o.error = job.error
            /\ Contents(o.rows) = Contents(rows)
            /\ o.created = job.created
            /\ o.updated = job.updated

\* C24 as stated: after the pass over a device, every other order of its
\* prefixes and next hops would have given the same rows but for primary keys
\* and timestamps, and the same routes_created and routes_updated.
C24_OrderIndependence == job.phase = "reconciled" => OrderIndependent

\* C24 amended: the same, for observations no two of which have one identity
\* key.
C24_OrderIndependenceDistinctKeys ==
    (job.phase = "reconciled" /\ DistinctKeys("d1", job.table.routes)) => OrderIndependent

\* C24's case: a pass over two prefixes with three valid next hops, a day
\* after an earlier pass stored them, saw all three rows again.
C24_Witness ==
    /\ job.phase = "reconciled"
    /\ job.table = TwoPrefixTable
    /\ DistinctKeys("d1", job.table.routes)
    /\ job.updated = 3 /\ job.created = 0
    /\ job.t > 0
    /\ \A r \in rows : r.first_seen < r.last_seen /\ r.last_seen = job.t

(***************************************************************************)
(* SpecFetch: one run of the collection job with nr.run() in steps. The    *)
(* threaded runner hands one task per inventory host to a pool of          *)
(* num_workers threads; nr.run() returns when every task has ended; the    *)
(* loop over device_map then persists one device after the other, one      *)
(* prefix of its routes dict per step.                                     *)
(***************************************************************************)
\* The largest worker count tried (the job accepts 1..200).
MaxWorkers == 2

\* The number of runs of the job in one behaviour of SpecFetch.
MaxFetchRuns == 1

\* host.platform of an inventory host.
Platforms == {"arista_eos", "cisco_ios", "linux"}

\* What task.run(napalm_cli) does for a host: it raises NornirSubTaskError
\* (cause: transport error or timeout), or returns raw, a dict of command
\* outputs or something else. text is the output of the first command and
\* vrf_text that of "show ip route vrf *" (IOS only).
Fetched(raises, cause, isdict, text, vrf_text) ==
    [raises |-> raises, cause |-> cause, isdict |-> isdict, text |-> text,
     vrf_text |-> vrf_text]
Fetches ==
    { Fetched(TRUE, "connection refused", FALSE, "", ""),
      Fetched(TRUE, "timed out", FALSE, "", ""),
      Fetched(FALSE, "", FALSE, "", ""),
      Fetched(FALSE, "", TRUE, "", ""),
      Fetched(FALSE, "", TRUE, "garbage", ""),
      Fetched(FALSE, "", TRUE, "table", ""),
      Fetched(FALSE, "", TRUE, "", "vrf table"),
      Fetched(FALSE, "", TRUE, "table", "vrf table") }

\* The routes dict the parsers build from the output "table": two prefixes
\* that are one network, one next hop each.
SplitTable ==
    Routes(<< [prefix |-> Net4(10, 0, 0, 0, 24), nexthops |-> <<NextHop("10.0.0.1")>>],
              [prefix |-> Net4(10, 0, 0, 1, 24), nexthops |-> <<NextHop("10.0.0.2")>>] >>)

\* The routes dict the parsers build from the output "vrf table": the first
\* prefix again, in the routing table of VRF v1.
VrfTable ==
    Routes(<< [prefix |-> Net4(10, 0, 0, 0, 24),
               nexthops |-> <<[NextHop("10.0.0.1") EXCEPT !.routing_table = "v1"]>>] >>)

\* json.loads / TextFSM: the text parses, or the parser raises.
Decodable(text) == text \in {"table", "vrf table"}
parse_routes(text) == IF text = "table" THEN SplitTable.routes ELSE VrfTable.routes

\* routes.setdefault(prefix, []).extend(nexthops) for one prefix.
extend(routes, r) ==
    IF \E i \in DOMAIN routes : routes[i].prefix = r.prefix
    THEN [i \in DOMAIN routes |->
             IF routes[i].prefix = r.prefix
             THEN [routes[i] EXCEPT !.nexthops = @ \o r.nexthops]
             ELSE routes[i]]
    ELSE Append(routes, r)

\* The loop over vrf_routes.items().
RECURSIVE merge_routes(_, _)
merge_routes(routes, more) ==
    IF more = <<>> THEN routes
    ELSE merge_routes(extend(routes, Head(more)), Tail(more))

\* What a function call ends with: a Result (exc = "none") or an exception.
Result(failed, result, routes) ==
    [exc |-> "none", failed |-> failed, result |-> result, routes |-> routes]
Raise(exc, msg) == [exc |-> exc, failed |-> FALSE, result |-> msg, routes |-> <<>>]

\* Mutant: a raw result that is no dict is passed on as the result.
collect_routes_eos_keeps_raw(f) ==
    LET body == IF f.raises THEN Raise("NornirSubTaskError", f.cause)
                ELSE IF ~f.isdict THEN Result(FALSE, "raw", <<>>)
                ELSE IF f.text = "" THEN Result(FALSE, "", <<>>)
                ELSE IF ~Decodable(f.text) THEN Raise("JSONDecodeError", "Expecting value")
                ELSE Result(FALSE, "", parse_routes(f.text))
    IN  IF body.exc # "none" THEN Result(TRUE, body.result, <<>>) ELSE body

\* _collect_routes_eos: the try block, then its two handlers.
collect_routes_eos(f) ==
    LET body == IF f.raises THEN Raise("NornirSubTaskError", f.cause)
                ELSE IF ~f.isdict
                THEN Result(TRUE, "napalm_cli returned unexpected type", <<>>)
                ELSE IF f.text = "" THEN Result(FALSE, "", <<>>)
                ELSE IF ~Decodable(f.text) THEN Raise("JSONDecodeError", "Expecting value")
                ELSE Result(FALSE, "", parse_routes(f.text))
    IN  IF body.exc # "none" THEN Result(TRUE, body.result, <<>>) ELSE body

\* _collect_routes_ios: the global table, then the VRF tables appended.
collect_routes_ios(f) ==
    LET global == IF f.text # "" THEN parse_routes(f.text) ELSE <<>>
        body == IF f.raises THEN Raise("NornirSubTaskError", f.cause)
                ELSE IF ~f.isdict
                THEN Result(TRUE, "napalm_cli returned unexpected type", <<>>)
                ELSE IF f.text # "" /\ ~Decodable(f.text)
                THEN Raise("TextFSMError", "State Error raised")
                ELSE IF f.vrf_text # "" /\ ~Decodable(f.vrf_text)
                THEN Raise("TextFSMError", "State Error raised")
                ELSE IF f.vrf_text # ""
                THEN Result(FALSE, "", merge_routes(global, parse_routes(f.vrf_text)))
                ELSE Result(FALSE, "", global)
    IN  IF body.exc # "none" THEN Result(TRUE, body.result, <<>>) ELSE body

\* _collect_routes_task: dispatch on the platform, inside except Exception.
collect_routes_task(platform, f) ==
    LET body == IF platform = "arista_eos" THEN collect_routes_eos(f)
                ELSE IF platform = "cisco_ios" THEN collect_routes_ios(f)
                ELSE Result(TRUE, "Unsupported platform for route collection", <<>>)
    IN  IF body.exc # "none" THEN Result(TRUE, body.result, <<>>) ELSE body

\* Mutant: the pool starts a task whenever one is queued.
FreeWorker_unbounded(task, workers) == TRUE

\* ThreadPoolExecutor(num_workers): a queued task starts when fewer than
\* num_workers tasks are running.
FreeWorker(task, workers) ==
    Cardinality({ h \in DOMAIN task : task[h] = "running" }) < workers

\* Mutant: nr.run() returns as soon as one task has ended.
AllCollected_first(task) == \E h \in DOMAIN task : task[h] = "done"

\* nr.run() returns when every host's task has ended.
AllCollected(task) == \A h \in DOMAIN task : task[h] = "done"

\* results[device_name] as the loop over device_map reads it.
HostOutcome(results, d) ==
    IF d \notin DOMAIN results THEN Missing
    ELSE IF results[d].failed THEN Failed
    ELSE Routes(results[d].routes)

\* The counters of a device's pass at its start.
ZeroAcc(R, pk) ==
    [rows |-> R, pk |-> pk, error |-> FALSE, created |-> 0, updated |-> 0,
     excluded |-> 0, dryrun |-> 0, invalid |-> 0]

FetchJob(phase, commit, workers, hosts, runs) ==
    [phase |-> phase, commit |-> commit, workers |-> workers, hosts |-> hosts,
     task |-> [h \in hosts |-> "queued"], started |-> [h \in hosts |-> 0],
     results |-> <<>>, todo |-> <<>>, current |-> NoDevice, pending |-> <<>>,
     acc |-> ZeroAcc({}, 0), log |-> <<>>, stats |-> NoStats, outcome |-> "none",
     runs |-> runs]

InitFetch ==
    /\ rows = {}
    /\ now = 0
    /\ nextPk = 1
    /\ pc = [w \in Writers |-> "idle"]
    /\ cand = [w \in Writers |-> Base]
    /\ found = [w \in Writers |-> NoRow]
    /\ ret = [w \in Writers |-> [result |-> "none", pk |-> NoRow]]
    /\ job = [FetchJob("done", TRUE, 1, {}, 0) EXCEPT !.outcome = "returned"]

\* run() up to nr.run(): the inventory's hosts are queued as tasks.
Dispatch(commit, workers, hosts) ==
    /\ job.phase = "done"
    /\ job.runs < MaxFetchRuns
    /\ hosts # {}
    /\ job' = [FetchJob("fetch", commit, workers, hosts, job.runs + 1)
                  EXCEPT !.stats.devices_total = Cardinality(hosts)]
    /\ UNCHANGED <<rows, now, nextPk, pc, cand, found, ret>>

\* A worker thread takes the queued task of host h.
StartTask(h) ==
    /\ job.phase = "fetch"
    /\ h \in job.hosts
    /\ job.task[h] = "queued"
    /\ FreeWorker(job.task, job.workers)
    /\ job' = [job EXCEPT !.task[h] = "running", !.started[h] = @ + 1]
    /\ UNCHANGED <<rows, now, nextPk, pc, cand, found, ret>>

\* _collect_routes_task(task) of host h returns.
EndTask(h, platform, f) ==
    /\ job.phase = "fetch"
    /\ h \in job.hosts
    /\ job.task[h] = "running"
    /\ job' = [job EXCEPT !.task[h] = "done",
                          !.results = [x \in DOMAIN @ \cup {h} |->
                                          IF x = h THEN collect_routes_task(platform, f)
                                          ELSE @[x]]]
    /\ UNCHANGED <<rows, now, nextPk, pc, cand, found, ret>>

\* nr.run() returns; the loop over device_map begins.
Collect ==
    /\ job.phase = "fetch"
    /\ AllCollected(job.task)
    /\ job' = [job EXCEPT !.phase = "persist", !.todo = InOrder(job.hosts)]
    /\ UNCHANGED <<rows, now, nextPk, pc, cand, found, ret>>

\* The head of the loop body for the next device, up to transaction.atomic().
BeginDevice ==
    /\ job.phase = "persist"
    /\ job.current = NoDevice
    /\ job.todo # <<>>
    /\ LET d == Head(job.todo)
           o == HostOutcome(job.results, d)
       IN  job' = IF o.kind # "routes"
                  THEN [job EXCEPT !.stats.devices_failed = @ + 1, !.todo = Tail(@)]
                  ELSE IF o.routes = <<>>
                  THEN [job EXCEPT !.stats.devices_success = @ + 1, !.todo = Tail(@)]
                  ELSE [job EXCEPT !.current = d, !.pending = o.routes,
                                   !.acc = ZeroAcc(rows, nextPk)]
    /\ UNCHANGED <<rows, now, nextPk, pc, cand, found, ret>>

\* One pass of the loop over routes.items() for the current device.
PersistRoute ==
    /\ job.phase = "persist"
    /\ job.current # NoDevice
    /\ job.pending # <<>>
    /\ ~job.acc.error
    /\ \E a \in {process_routes([job.acc EXCEPT !.rows = rows, !.pk = nextPk], job.current,
                                <<Head(job.pending)>>, job.commit, now)} :
          /\ a.pk <= MaxPk + 1
          /\ rows' = a.rows
          /\ nextPk' = a.pk
          /\ job' = [job EXCEPT !.pending = Tail(@),
                                !.acc = [a EXCEPT !.rows = job.acc.rows, !.pk = job.acc.pk],
                                !.log = Append(@, job.current)]
    /\ UNCHANGED <<now, pc, cand, found, ret>>

\* The end of the device's transaction: commit and add the counters, or roll
\* back and count the device as failed.
EndDevice ==
    /\ job.phase = "persist"
    /\ job.current # NoDevice
    /\ job.pending = <<>> \/ job.acc.error
    /\ rows' = IF job.acc.error THEN job.acc.rows ELSE rows
    /\ nextPk' = IF job.acc.error THEN job.acc.pk ELSE nextPk
    /\ job' = [job EXCEPT !.stats = AddDevice(@, job.acc), !.current = NoDevice,
                          !.pending = <<>>, !.todo = Tail(@),
                          !.acc = ZeroAcc({}, 0)]
    /\ UNCHANGED <<now, pc, cand, found, ret>>

\* The summary after the loop.
FinishRun ==
    /\ job.phase = "persist"
    /\ job.current = NoDevice
    /\ job.todo = <<>>
    /\ job' = [job EXCEPT !.phase = "done",
                          !.outcome = IF total_failure(job.stats) THEN "raised" ELSE "returned"]
    /\ UNCHANGED <<rows, now, nextPk, pc, cand, found, ret>>

NextFetch ==
    \/ \E commit \in BOOLEAN, workers \in 1..MaxWorkers, hosts \in SUBSET Devices :
          Dispatch(commit, workers, hosts)
    \/ \E h \in Devices : StartTask(h)
    \/ \E h \in Devices, platform \in Platforms, f \in Fetches : EndTask(h, platform, f)
    \/ Collect
    \/ BeginDevice
    \/ PersistRoute
    \/ EndDevice
    \/ FinishRun
    \/ (job.phase = "done" /\ Tick)

SpecFetch == InitFetch /\ [][NextFetch]_vars

\* The devices whose rows the persistence steps wrote, in the order of the steps.
Grouped(log) ==
    \A i, j, k \in 1..Len(log) : i < j /\ j < k /\ log[i] = log[k] => log[j] = log[i]

\* C25: phase ordering. The store changes only after every dispatched host's
\* task has ended and its result is held by the run, and the persistence steps
\* of two devices never interleave: between two steps of a device there is no
\* step of another.
C25_FetchBeforePersist ==
    /\ [][rows' # rows =>
            /\ job.phase = "persist"
            /\ \A h \in job.hosts : job.task[h] = "done" /\ h \in DOMAIN job.results
            /\ job.current # NoDevice
            /\ job'.log = Append(job.log, job.current)]_vars
    /\ [](Grouped(job.log))

\* Two devices, both persisted with rows of their own.
C25_Witness ==
    /\ job.phase = "done"
    /\ job.hosts = {"d1", "d2"}
    /\ job.commit
    /\ job.log = <<"d1", "d1", "d2">>
    /\ Cardinality({ r \in rows : r.device = "d1" }) = 2
    /\ Cardinality({ r \in rows : r.device = "d2" }) = 1

\* The tasks in flight: started and not ended.
InFlight == { h \in DOMAIN job.task : job.task[h] = "running" }

\* C26: bounded concurrency. While the run fetches, at most job.workers tasks
\* are in flight; the tasks are those of the inventory's hosts, none is started
\* twice, and when the fetch phase is over each has been run exactly once.
C26_BoundedConcurrency ==
    /\ Cardinality(InFlight) <= job.workers
    /\ DOMAIN job.task = job.hosts
    /\ \A h \in job.hosts :
          /\ job.started[h] <= 1
          /\ job.started[h] = 1 <=> job.task[h] # "queued"
          /\ job.phase \in {"persist", "done"} => job.started[h] = 1 /\ job.task[h] = "done"

\* Two hosts and one worker: the second task runs after the first has ended.
C26_Witness ==
    /\ job.phase = "fetch"
    /\ job.hosts = {"d1", "d2"}
    /\ job.workers = 1
    /\ job.task["d1"] = "done"
    /\ job.task["d2"] = "running"
    /\ job.started = [h \in job.hosts |-> 1]

\* SpecFetch with the scheduling of the fetch phase: the pool starts a queued
\* task once a worker is free, and a started task ends, by an answer of the
\* device or by the connection's timeout.
SpecFetchFair ==
    /\ SpecFetch
    /\ \A h \in Devices : WF_vars(StartTask(h))
    /\ \A h \in Devices : WF_vars(\E platform \in Platforms, f \in Fetches :
                                     EndTask(h, platform, f))

\* The cause strings of the failures, and the failure a fetch must end in: a
\* raised transport error or timeout, a raw result that is no dict, or output
\* the parser cannot read.
Faulty(f) ==
    \/ f.raises
    \/ ~f.isdict
    \/ f.text # "" /\ ~Decodable(f.text)

\* What the task of a supported platform returns for every fetch: no exception;
\* for a faulty fetch a failed result with a cause, which for a raised error is
\* the error's own; for a good one the parsed routes.
TaskVerdicts ==
    \A platform \in SUPPORTED_PLATFORMS, f \in Fetches :
       \A r \in {collect_routes_task(platform, f)} :
          /\ r.exc = "none"
          /\ Faulty(f) => r.failed /\ r.result # "" /\ r.routes = <<>>
          /\ f.raises => r.result = f.cause
          /\ ~Faulty(f) =>
                /\ ~r.failed
                /\ r.routes =
                     IF platform = "arista_eos"
                     THEN (IF f.text = "" THEN <<>> ELSE parse_routes(f.text))
                     ELSE merge_routes(IF f.text = "" THEN <<>> ELSE parse_routes(f.text),
                                       IF f.vrf_text = "" THEN <<>>
                                       ELSE parse_routes(f.vrf_text))

\* C27: every dispatched task ends, with one outcome that is a result and no
\* exception: a failed result with a cause string, or the parsed routes. The
\* end of a task records the result of its host alone, once, and leaves the
\* results of the other hosts as they are.
C27_TaskEndsWithOneOutcome ==
    /\ [](/\ TaskVerdicts
          /\ \A h \in DOMAIN job.results :
                /\ job.task[h] = "done"
                /\ job.results[h].exc = "none"
                /\ job.results[h].failed =>
                      job.results[h].result # "" /\ job.results[h].routes = <<>>
                /\ ~job.results[h].failed =>
                      job.results[h].routes \in
                         {<<>>, SplitTable.routes, VrfTable.routes,
                          merge_routes(SplitTable.routes, VrfTable.routes)})
    /\ [][job.phase = "fetch" /\ job'.results # job.results =>
             \E h \in job.hosts :
                /\ job.task[h] = "running"
                /\ h \notin DOMAIN job.results
                /\ DOMAIN job'.results = DOMAIN job.results \cup {h}
                /\ \A x \in DOMAIN job.results : job'.results[x] = job.results[x]]_vars
    /\ \A h \in Devices :
          (job.phase = "fetch" /\ h \in job.hosts)
             ~> (h \in DOMAIN job.results /\ job.task[h] = "done")

\* One device timed out and the other answered: a failed result with the
\* cause for the first, the parsed routes for the second.
C27_Witness ==
    /\ job.phase = "persist"
    /\ job.hosts = {"d1", "d2"}
    /\ job.results["d1"].failed
    /\ job.results["d1"].result = "timed out"
    /\ ~job.results["d2"].failed
    /\ job.results["d2"].routes = SplitTable.routes

(***************************************************************************)
(* SpecRace: a commit run of PurgeOldRoutesJob beside the writers of        *)
(* SpecConc. stale(days).delete() is two steps in its own transaction: the *)
(* stale rows are selected, then deleted; the delete waits for the row     *)
(* locks of writers. job holds the purge: the cutoff, the rows selected    *)
(* and, once it has ended, the rows it removed as they were at removal.    *)
(***************************************************************************)
RaceCandidates == { Base, Changed }

\* cutoff = timezone.now() - timedelta(days), and the rows stale(days) selects.
PurgeSelect(days) ==
    /\ job.phase \in {"none", "purged"}
    /\ job' = [phase |-> "purging", cutoff |-> now - days, seen |-> stale(rows, now, days),
               removed |-> {}]
    /\ UNCHANGED <<rows, now, nextPk, pc, cand, found, ret>>

\* The rows the delete removes: the selected rows by primary key, or, when the
\* delete is one statement on the condition, those of them still before the
\* cutoff.
Removed(R, seen, cutoff, recheck) ==
    { r \in R : r.pk \in { s.pk : s \in seen } /\ (recheck => r.last_seen < cutoff) }

\* The delete and the commit of the purge's transaction.
PurgeDelete(recheck) ==
    /\ job.phase = "purging"
    /\ \A s \in job.seen : s.pk \notin Locked
    /\ rows' = rows \ Removed(rows, job.seen, job.cutoff, recheck)
    /\ job' = [job EXCEPT !.phase = "purged",
                          !.removed = Removed(rows, job.seen, job.cutoff, recheck)]
    /\ UNCHANGED <<now, nextPk, pc, cand, found, ret>>

NextRace ==
    \/ \E w \in Writers, c \in RaceCandidates : Begin(w, c)
    \/ \E w \in Writers : Finish(w)
    \/ \E days \in RetentionDays : PurgeSelect(days)
    \/ \E recheck \in BOOLEAN : PurgeDelete(recheck)
    \/ Tick

SpecRace == Init /\ [][NextRace]_vars

C29_ProtocolCoercedAtStore ==
    [][<<cand, ret>>' # <<cand, ret>> /\ ~Rejected(cand'["w1"]) =>
          LET protocol == cand'["w1"].protocol
              coerced == IF protocol # "" /\ lower(protocol) \in Protocol
                         THEN lower(protocol) ELSE "unknown"
          IN  /\ ret'["w1"].result \in {"created", "updated"}
              /\ \E r \in rows' : r.pk = ret'["w1"].pk /\ r.protocol = coerced]_vars

\* One next hop of one prefix seen in the global tables under each of their
\* names, in a routing table without a VRF, and in the routing table of VRF v1.
UnresolvedTable ==
    Routes(<< [prefix |-> Net4(10, 0, 0, 0, 24),
               nexthops |-> <<[NextHop("10.0.0.1") EXCEPT !.routing_table = "inet.0"],
                              [NextHop("10.0.0.1") EXCEPT !.routing_table = "v1"],
                              [NextHop("10.0.0.1") EXCEPT !.routing_table = ""],
                              NextHop("10.0.0.1"),
                              [NextHop("10.0.0.1") EXCEPT !.routing_table = "blue"]>>] >>)

\* The identity keys of the observations of the routes that the store accepts.
ObservedKeysOf(d, routes) ==
    { KeyOf(Arguments(d, routes[p[1]].prefix, routes[p[1]].nexthops[p[2]])) :
        p \in ValidObservations(d, routes) }

\* C30: after a committing pass over a device that did not raise, the rows
\* created are as many as the distinct keys (resolved vrf, canonical network,
\* next_hop, protocol) of its accepted observations that had no row, all of
\* them when the device had no rows; every other accepted observation is
\* counted as an update, and each key has one row. A pass over five
\* observations of one next hop, in routing tables "inet.0", "v1", "",
\* "default" and "blue" (no VRF), leaves one row with vrf null, whose
\* routing_table is that of the last of them, and one row in VRF v1.
C30_VrfResolutionAndIdentity ==
    /\ (job.phase = "reconciled" /\ ~job.error) =>
          LET routes == job.table.routes
              keys == ObservedKeysOf("d1", routes)
              old == { RowKey(r) : r \in job.rows0 }
          IN  /\ job.created = Cardinality(keys \ old)
              /\ job.created + job.updated = Cardinality(ValidObservations("d1", routes))
              /\ job.rows0 = {} => job.created = Cardinality(keys)
              /\ \A k \in keys : Cardinality({ r \in rows : RowKey(r) = k }) = 1
              /\ Cardinality(rows) = Cardinality(job.rows0) + job.created
    /\ job.phase = "reconciled" =>
          \A o \in {process_device(rows, "d1", UnresolvedTable, TRUE, nextPk, now)} :
             LET null == { r \in o.rows : RowKey(r) = KeyOf(Base) }
                 v1 == { r \in o.rows : RowKey(r) = KeyOf([Base EXCEPT !.vrf = "v1"]) }
                 had == Cardinality({ r \in rows : RowKey(r) \in {KeyOf(Base),
                                        KeyOf([Base EXCEPT !.vrf = "v1"])} })
             IN  /\ ~o.error /\ o.invalid = 0
                 /\ o.created = 2 - had
                 /\ o.updated = 3 + had
                 /\ Cardinality(null) = 1 /\ Cardinality(v1) = 1
                 /\ \A r \in null : r.vrf = NoVrf /\ r.routing_table = "blue" /\ r.last_seen = now
                 /\ \A r \in v1 : r.routing_table = "v1"
                 /\ Cardinality(o.rows) = Cardinality(rows) + o.created

\* A device without rows reports one next hop in routing table "default" and
\* in "blue", for which there is no VRF: one row is created, with vrf null,
\* and the second observation is an update of it.
C30_Witness ==
    /\ job.phase = "reconciled"
    /\ job.table = CollidingTable
    /\ job.rows0 = {}
    /\ job.created = 1 /\ job.updated = 1
    /\ Cardinality(rows) = 1
    /\ \A r \in rows : r.vrf = NoVrf /\ r.routing_table \in {"default", "blue"}

====
